---- MODULE Spec2Model ----
(***************************************************************************)
(* Model of the beam-search hypothesis selection (batch_topk_kernel and    *)
(* its launcher), the beam-width dispatcher invokeTopkSoftMax and the      *)
(* multi-device peer-memory setup (setPeerAccess, IpcMemory,               *)
(* AllReduceBuffers) of cortex.tensorrt-llm.                               *)
(*                                                                         *)
(* Scores are floats in the source.  Here every log-probability is an      *)
(* integer multiple of Scale, so that dividing by length^length_penalty    *)
(* (length_penalty in {0, 1}) is exact; rounding is not modelled.          *)
(***************************************************************************)
EXTENDS Integers, Sequences, FiniteSets, TLC

\* ------------------------------------------------------------------------
\* Bounds of the model
\* ------------------------------------------------------------------------
MaxBeamWidth == 2       \* beam widths 1 .. MaxBeamWidth
MaxSteps == 3           \* decode steps (launcher calls) per run

\* ------------------------------------------------------------------------
\* Helpers
\* ------------------------------------------------------------------------
RECURSIVE Fact(_)
Fact(n) == IF n <= 1 THEN 1 ELSE n * Fact(n - 1)

Min2(a, b) == IF a < b THEN a ELSE b

\* one unit of log-probability; divisible by every length 1 .. MaxSteps
Scale == Fact(MaxSteps)

\* FLT_MAX, and the value -inf that float arithmetic yields below -FLT_MAX
FLT_MAX == 1000000
NEG_INF == 0 - 2 * FLT_MAX
\* 0.0f / 0.0f
NaN == 3 * FLT_MAX

\* the requests of the global batch (beam_hyps.batch_size of them), split
\* into micro-batches of local_batch_size requests
Requests == {0, 1}
Blocks == {0}
batch_size == Cardinality(Requests)
local_batch_size == Cardinality(Blocks)

\* prompt length of every request, and the end id
InputLen == 1
end_ids == [v \in Blocks |-> 0]
input_lengths == [g \in Requests |-> InputLen]
max_seq_len == InputLen + MaxSteps

VARIABLES
    cfg,            \* BeamHypotheses scalars: beam_width, ledger, per-request rates
    hyps,           \* finished-hypothesis ledger, per request
    is_done,        \* beam_hyps.is_done
    live,           \* live beams of every request (the *_src / *_ptr buffers)
    temp_storage,   \* topk_id / topk_val written by stage 2, read by batch_topk_kernel
    phase,          \* per request: "decode" (launcher next) or "update"
    nsteps,         \* launcher calls so far
    last,           \* what the last batch_topk_kernel block did (history)
    call,           \* arguments and device attributes of the invokeTopkSoftMax call
    disp,           \* invokeTopkSoftMax / launcher: position, locals, kernels launched
    peerAccess,     \* per rank: the peers its device has peer access to
    peer,           \* per rank: the running setPeerAccess call
    ipc,            \* per rank: its AllReduceBuffers and their IpcMemory objects
    gathered,       \* per IpcMemory index: the handles contributed to the all-gather
    stage,          \* one beam's log_probs row, its stage-1 summaries and the stage-2 output
    samp,           \* the buffers of one sampling-kernel call
    dec             \* the GptDecoderBatch object and its stream

beamVars == <<cfg, hyps, is_done, live, temp_storage, phase, nsteps, last>>
launchVars == <<call, disp>>
ipcVars == <<peerAccess, peer, ipc, gathered>>
extVars == <<stage, samp, dec>>
vars == <<beamVars, launchVars, ipcVars, extVars>>

\* ------------------------------------------------------------------------
\* apply_length_penalty: score = log(prob) / (length ^ length_penalty)
\* ------------------------------------------------------------------------
RECURSIVE Pow(_, _)
Pow(b, e) == IF e <= 0 THEN 1 ELSE b * Pow(b, e - 1)

apply_length_penalty(log_prob, length, length_penalty) ==
    IF length_penalty = 0 \/ length = 1
    THEN log_prob
    ELSE IF Pow(length, length_penalty) = 0
         THEN (IF log_prob < 0 THEN NEG_INF ELSE IF log_prob > 0 THEN FLT_MAX + FLT_MAX ELSE NaN)
         ELSE log_prob \div Pow(length, length_penalty)

\* a >= b on floats: false when either side is NaN
FloatGE(a, b) == a # NaN /\ b # NaN /\ a >= b

\* ------------------------------------------------------------------------
\* Geometry of one launch
\* ------------------------------------------------------------------------
vocab_size(K) == 2 * K
candidate_size(K) == K * K * 2
Beams(K) == 0 .. (K - 1)
Slots(K) == 0 .. (2 * K - 1)
Positions == 0 .. (max_seq_len - 1)

global_batch_idx(ite, vector_id) == ite * local_batch_size + vector_id

\* ------------------------------------------------------------------------
\* Stage 1 + stage 2: per live beam the 2K best (id, value) pairs of its
\* vocabulary row, best first; a finished beam yields the end id with
\* value 0 and every other token with -inf.  The logits of a live beam are
\* an input, drawn from LogitProfiles: the end token is either the best or
\* the worst of the row, and the best log-probability is -base.
\* ------------------------------------------------------------------------
LogitProfiles ==
    {[endFirst |-> TRUE, base |-> 1], [endFirst |-> TRUE, base |-> 2],
     [endFirst |-> FALSE, base |-> 1]}

StageToken(K, end, finished, prof, n) ==
    IF finished \/ prof.endFirst
    THEN (end + n) % vocab_size(K)
    ELSE (end + 1 + n) % vocab_size(K)

StageLogProb(finished, prof, n) ==
    IF finished
    THEN (IF n = 0 THEN 0 ELSE NEG_INF)
    ELSE 0 - ((prof.base + n) * Scale)

\* ids[vector_id * 2K * K + beam * 2K + n], absolute id = beam row * vocab + token
Stage2Ids(K, end, lv, profs) ==
    [id \in 0 .. (candidate_size(K) - 1) |->
        LET b == id \div (2 * K)
            n == id % (2 * K)
        IN b * vocab_size(K) + StageToken(K, end, lv.finished[b], profs[b], n)]

Stage2Vals(K, lv, profs) ==
    [id \in 0 .. (candidate_size(K) - 1) |->
        LET b == id \div (2 * K)
            n == id % (2 * K)
            lp == StageLogProb(lv.finished[b], profs[b], n)
        IN IF lp = NEG_INF THEN NEG_INF ELSE lp + lv.cum_log_probs_src[b]]

\* ------------------------------------------------------------------------
\* batch_topk_kernel, part 1: the 2K best candidates by block-wide arg-max
\* ------------------------------------------------------------------------
\* cub::ArgMax: the larger value wins, the lower key on equal values
ArgMax(a, b) ==
    IF b.value > a.value \/ (a.value = b.value /\ b.key < a.key) THEN b ELSE a

RECURSIVE ReduceArgMax(_, _, _)
ReduceArgMax(buf_s, id, partial) ==
    IF id \notin DOMAIN buf_s
    THEN partial
    ELSE ReduceArgMax(buf_s, id + 1, ArgMax(partial, [key |-> id, value |-> buf_s[id]]))

\* elem = topk_val[id] + diversity_rate * i
CandidateElems(K, ledger, diversity_rate, topk_val) ==
    [id \in DOMAIN topk_val |->
        LET i == IF ledger THEN (id \div 2) \div K ELSE id % K
        IN IF topk_val[id] = NEG_INF THEN NEG_INF ELSE topk_val[id] + diversity_rate * i]

RECURSIVE ExtractTopk(_, _, _, _)
ExtractTopk(buf_s, csize, n, acc) ==
    IF n = 0
    THEN acc
    ELSE LET total_topk == ReduceArgMax(buf_s, 0, [key |-> csize - 1, value |-> 0 - FLT_MAX])
         IN ExtractTopk([buf_s EXCEPT ![total_topk.key] = 0 - FLT_MAX], csize, n - 1,
                        Append(acc, total_topk))

\* cta_topk[0 .. 2K-1], as a sequence indexed from 1
cta_topk(K, ledger, diversity_rate, topk_val) ==
    ExtractTopk(CandidateElems(K, ledger, diversity_rate, topk_val),
                candidate_size(K), 2 * K, <<>>)

\* ------------------------------------------------------------------------
\* batch_topk_kernel, part 2: thread 0 adjusts beams or selects completed
\* beams sequentially.  st is the block's view while the loop runs:
\*   h    the ledger of request global_batch_idx
\*   lv   the live beams of block vector_id
\*   selected_beams, stop (the loop has hit a break)
\*   lo, hi   least and greatest num_beams seen during the loop (history)
\*   stored   the ledger stores of this run, oldest first (history)
\* ------------------------------------------------------------------------
\* the beam whose token the backward walk copies at position j, having
\* started from beam prev_id at position current_step - 1
\* variant: the walk stays on beam prev_id instead of following parent_ids
WalkBeam_SameBeam(parent_ids, prev_id, current_step, j) ==
    prev_id

RECURSIVE WalkBeam(_, _, _, _)
WalkBeam(parent_ids, prev_id, current_step, j) ==
    IF j >= current_step - 1
    THEN prev_id
    ELSE parent_ids[WalkBeam(parent_ids, prev_id, current_step, j + 1)][j + 1]

\* lines 272-290: the row written to output_ids_tgt
StoredRow(row, lv, end, prev_id, current_step) ==
    [j \in DOMAIN row |->
        IF j = current_step THEN end
        ELSE IF j < current_step
             THEN lv.output_ids[WalkBeam(lv.parent_ids, prev_id, current_step, j)][j]
             ELSE row[j]]

\* lines 247-264: the first j < K whose score is the minimum, or K if none
RECURSIVE FindWorst(_, _, _, _)
FindWorst(normed_scores, min_score, K, j) ==
    IF j >= K THEN K
    ELSE IF normed_scores[j] = min_score THEN j
    ELSE FindWorst(normed_scores, min_score, K, j + 1)

\* lines 254-261: FLT_MAX folded with min over slots 0 .. K-1
RECURSIVE MinOver(_, _, _)
MinOver(normed_scores, K, l) ==
    IF l >= K THEN FLT_MAX ELSE Min2(normed_scores[l], MinOver(normed_scores, K, l + 1))

\* variant: the worst entry is overwritten without num_beams being decremented
EraseWorst_NoDecrement(h, K, normed_score) ==
    LET j == FindWorst(h.normed_scores, h.min_normed_scores, K, 0)
        ns == [h.normed_scores EXCEPT ![j] = normed_score]
    IN IF j = K
       THEN [beam_idx |-> K, h |-> h]
       ELSE [beam_idx |-> j,
             h |-> [h EXCEPT !.normed_scores = ns,
                             !.min_normed_scores = MinOver(ns, K, 0)]]

\* lines 233-266: the slot to write and the ledger after erasing the worst
EraseWorst(h, K, normed_score) ==
    LET j == FindWorst(h.normed_scores, h.min_normed_scores, K, 0)
        ns == [h.normed_scores EXCEPT ![j] = normed_score]
    IN IF j = K
       THEN [beam_idx |-> K, h |-> h]
       ELSE [beam_idx |-> j,
             h |-> [h EXCEPT !.num_beams = h.num_beams - 1,
                             !.normed_scores = ns,
                             !.min_normed_scores = MinOver(ns, K, 0)]]

\* variant: the store leaves min_normed_scores as it was
StoreBeam_KeepMin(h, lv, K, end, beam_idx, prev_id, normed_score, value) ==
    LET current_step == lv.sequence_lengths_src[prev_id]
    IN [h EXCEPT
          !.output_ids_tgt[beam_idx] = StoredRow(@, lv, end, prev_id, current_step),
          !.sequence_lengths_tgt[beam_idx] = current_step,
          !.normed_scores[beam_idx] = normed_score,
          !.num_beams = h.num_beams + 1,
          !.cum_log_probs[beam_idx] = value]

\* lines 267-297: store the finished hypothesis in slot beam_idx
StoreBeam(h, lv, K, end, beam_idx, prev_id, normed_score, value) ==
    LET current_step == lv.sequence_lengths_src[prev_id]
    IN [h EXCEPT
          !.output_ids_tgt[beam_idx] = StoredRow(@, lv, end, prev_id, current_step),
          !.sequence_lengths_tgt[beam_idx] = current_step,
          !.normed_scores[beam_idx] = normed_score,
          !.min_normed_scores = Min2(h.min_normed_scores, normed_score),
          !.num_beams = h.num_beams + 1,
          !.cum_log_probs[beam_idx] = value]

\* one iteration i of the loop of lines 220-328
SelectOne(st, K, ledger, end, length_penalty, input_length, topk_id, topk_val, cta, i) ==
    LET current_key == cta[i + 1].key
        current_value == cta[i + 1].value
        is_end_token == (topk_id[current_key] % vocab_size(K)) = end
    IN
    IF i < K /\ ledger /\ is_end_token
    THEN
        LET seq_len == st.lv.sequence_lengths_src[i] - input_length
            pad == IF st.lv.finished[i] THEN 0 ELSE 1
            normed_score == apply_length_penalty(current_value, seq_len + pad, length_penalty)
            full == st.h.num_beams = K
        IN
        IF full /\ normed_score < st.h.min_normed_scores
        THEN [st EXCEPT !.selected_beams = K, !.stop = TRUE]
        ELSE
            LET er == IF full THEN EraseWorst(st.h, K, normed_score)
                      ELSE [beam_idx |-> st.h.num_beams, h |-> st.h]
                prev_id == (topk_id[current_key] \div vocab_size(K)) % K
                h2 == StoreBeam(er.h, st.lv, K, end, er.beam_idx, prev_id,
                                normed_score, topk_val[current_key])
            IN [st EXCEPT
                  !.h = h2,
                  !.lo = Min2(@, er.h.num_beams),
                  !.hi = IF h2.num_beams > @ THEN h2.num_beams ELSE @,
                  !.stored = Append(@, [slot |-> er.beam_idx, prev_id |-> prev_id, rank |-> i,
                                        current_step |-> st.lv.sequence_lengths_src[prev_id],
                                        normed_score |-> normed_score, replaced |-> full,
                                        worst |-> st.h.min_normed_scores]),
                  !.stop = st.selected_beams >= K]
    ELSE IF i < K \/ (ledger /\ ~is_end_token)
    THEN
        LET current_step == st.lv.sequence_lengths_src[st.selected_beams]
        IN [st EXCEPT
              !.lv.output_ids[st.selected_beams][current_step] = topk_id[current_key],
              !.lv.cum_log_probs_src[st.selected_beams] = topk_val[current_key],
              !.selected_beams = st.selected_beams + 1,
              !.stop = st.selected_beams + 1 >= K]
    ELSE [st EXCEPT !.stop = st.selected_beams >= K]

\* variant: the loop ends after its first candidate
SelectLoop_OneRound(st, K, ledger, end, length_penalty, input_length, topk_id, topk_val, cta, i) ==
    SelectOne(st, K, ledger, end, length_penalty, input_length, topk_id, topk_val, cta, i)

RECURSIVE SelectLoop(_, _, _, _, _, _, _, _, _, _)
SelectLoop(st, K, ledger, end, length_penalty, input_length, topk_id, topk_val, cta, i) ==
    IF i >= 2 * K \/ st.stop
    THEN st
    ELSE SelectLoop(SelectOne(st, K, ledger, end, length_penalty, input_length,
                              topk_id, topk_val, cta, i),
                    K, ledger, end, length_penalty, input_length, topk_id, topk_val, cta, i + 1)

\* lines 331-369: the value written to is_done[vector_id], given the count
\* num_beams[vector_id] the update reads
IsDoneValue(K, num_beams_v, early_stopping, length_penalty, input_length, h, lv) ==
    IF num_beams_v < K
    THEN FALSE
    ELSE IF early_stopping = 1
    THEN TRUE
    ELSE LET seq_len == IF early_stopping = 0 \/ ~(length_penalty > 0)
                        THEN lv.sequence_lengths_src[0] - input_length
                        ELSE max_seq_len - input_length
             highest_attainable_score ==
                 apply_length_penalty(lv.cum_log_probs_src[0], seq_len, length_penalty)
         IN FloatGE(h.min_normed_scores, highest_attainable_score)

\* variant: the block runs the selection although the ledger is full
batch_topk_kernel_NoReturn(c, hy, dn, lv, topk_id, topk_val, ite, vector_id) ==
    LET g == global_batch_idx(ite, vector_id)
        K == c.beam_width
        cta == cta_topk(K, c.ledger, c.diversity_rates[g], topk_val)
        st0 == [h |-> hy[g], lv |-> lv, selected_beams |-> 0, stop |-> FALSE,
                lo |-> hy[g].num_beams, hi |-> hy[g].num_beams, stored |-> <<>>]
        st == SelectLoop(st0, K, c.ledger, end_ids[vector_id], c.length_penalties[g],
                         input_lengths[g], topk_id, topk_val, cta, 0)
    IN [hyps |-> [hy EXCEPT ![g] = st.h], is_done |-> dn, lv |-> st.lv,
        last |-> [stored |-> st.stored, lo |-> st.lo, hi |-> st.hi,
                  selected_beams |-> st.selected_beams, ite |-> ite,
                  vector_id |-> vector_id, returned_early |-> FALSE,
                  wrote_done |-> FALSE, start_beams |-> hy[g].num_beams]]

\* One thread block of batch_topk_kernel.  c is the configuration, hy the
\* ledgers of all requests, dn is_done, lv the live beams of the block's
\* request.  The result holds the new ledgers, is_done, live beams and the
\* history of the run.
batch_topk_kernel(c, hy, dn, lv, topk_id, topk_val, ite, vector_id) ==
    LET g == global_batch_idx(ite, vector_id)
        K == c.beam_width
        NoRun == [stored |-> <<>>, lo |-> hy[g].num_beams, hi |-> hy[g].num_beams,
                  selected_beams |-> 0, ite |-> ite, vector_id |-> vector_id,
                  returned_early |-> TRUE, wrote_done |-> FALSE,
                  start_beams |-> hy[g].num_beams]
    IN
    IF c.ledger /\ hy[g].num_beams = K
    THEN [hyps |-> hy, is_done |-> dn, lv |-> lv, last |-> NoRun]
    ELSE
        LET h0 == IF c.ledger /\ hy[g].num_beams = 0
                  THEN [hy[g] EXCEPT !.min_normed_scores = FLT_MAX]
                  ELSE hy[g]
            cta == cta_topk(K, c.ledger, c.diversity_rates[g], topk_val)
            st0 == [h |-> h0, lv |-> lv, selected_beams |-> 0, stop |-> FALSE,
                    lo |-> h0.num_beams, hi |-> h0.num_beams, stored |-> <<>>]
            st == SelectLoop(st0, K, c.ledger, end_ids[vector_id], c.length_penalties[g],
                             input_lengths[g], topk_id, topk_val, cta, 0)
            hy2 == [hy EXCEPT ![g] = st.h]
            dn2 == IF c.ledger
                   THEN [dn EXCEPT ![vector_id] =
                            IsDoneValue(K, hy2[vector_id].num_beams, c.early_stoppings[g],
                                        c.length_penalties[g], input_lengths[g], st.h, st.lv)]
                   ELSE dn
        IN [hyps |-> hy2, is_done |-> dn2, lv |-> st.lv,
            last |-> [stored |-> st.stored, lo |-> st.lo, hi |-> st.hi,
                      selected_beams |-> st.selected_beams, ite |-> ite,
                      vector_id |-> vector_id, returned_early |-> FALSE,
                      wrote_done |-> c.ledger, start_beams |-> hy[g].num_beams]]

\* ------------------------------------------------------------------------
\* State after construction
\* ------------------------------------------------------------------------
EmptyLedger(K) ==
    [num_beams |-> 0,
     min_normed_scores |-> 0,
     normed_scores |-> [b \in Slots(K) |-> 0],
     output_ids_tgt |-> [b \in Slots(K) |-> [j \in Positions |-> 0]],
     sequence_lengths_tgt |-> [b \in Slots(K) |-> 0],
     cum_log_probs |-> [b \in Slots(K) |-> 0]]

\* every beam holds the prompt (token 1 at every prompt position)
FreshBeams(K) ==
    [output_ids |-> [b \in Beams(K) |-> [j \in Positions |-> IF j < InputLen THEN 1 ELSE 0]],
     parent_ids |-> [b \in Beams(K) |-> [j \in Positions |-> 0]],
     cum_log_probs_src |-> [b \in Beams(K) |-> 0],
     sequence_lengths_src |-> [b \in Beams(K) |-> InputLen],
     finished |-> [b \in Beams(K) |-> FALSE]]

\* with the ledger: every early-stopping mode of request 0 against both
\* length penalties ("never" differs from "false" only under a positive
\* penalty), and one configuration with a diversity rate; without the
\* ledger only the diversity rate matters

Configs ==
    {[beam_width |-> K, ledger |-> TRUE,
      length_penalties |-> [g \in Requests |-> m[2]],
      early_stoppings |-> [g \in Requests |-> IF g = 0 THEN m[1] ELSE 1],
      diversity_rates |-> [g \in Requests |-> 0]] :
        K \in 1 .. MaxBeamWidth, m \in {<<0, 0>>, <<0, 1>>, <<1, 0>>, <<1, 1>>, <<2, 1>>}}
    \cup
    {[beam_width |-> K, ledger |-> l,
      length_penalties |-> [g \in Requests |-> IF l THEN 1 ELSE 0],
      early_stoppings |-> [g \in Requests |-> IF g = 0 THEN 0 ELSE 1],
      diversity_rates |-> [g \in Requests |-> Scale]] :
        K \in 1 .. MaxBeamWidth, l \in BOOLEAN}
    \cup
    {[beam_width |-> K, ledger |-> FALSE,
      length_penalties |-> [g \in Requests |-> 0],
      early_stoppings |-> [g \in Requests |-> 1],
      diversity_rates |-> [g \in Requests |-> 0]] :
        K \in 1 .. MaxBeamWidth}

NoLast == [stored |-> <<>>, lo |-> 0, hi |-> 0, selected_beams |-> 0, ite |-> 0,
           vector_id |-> 0, returned_early |-> FALSE, wrote_done |-> FALSE,
           start_beams |-> 0]

BeamInit ==
    /\ cfg \in Configs
    /\ hyps = [g \in Requests |-> EmptyLedger(cfg.beam_width)]
    /\ is_done = [g \in Requests |-> FALSE]
    /\ live = [g \in Requests |-> FreshBeams(cfg.beam_width)]
    /\ temp_storage = [topk_id |-> <<>>, topk_val |-> <<>>]
    /\ phase = "decode"
    /\ nsteps = 0
    /\ last = NoLast

\* ------------------------------------------------------------------------
\* One decode step of micro-batch ite (the kernels that
\* topK_softMax_kernelLauncher enqueues): stage 1 and stage 2
\* fill topk_id / topk_val from the step's logits, then batch_topk_kernel
\* runs one block per request of the micro-batch.
\* ------------------------------------------------------------------------
BeamSearchStep(ite) ==
    /\ phase = "decode"
    /\ nsteps < MaxSteps
    /\ \E profs \in [Beams(cfg.beam_width) -> LogitProfiles] :
        LET vector_id == 0
            g == global_batch_idx(ite, vector_id)
            K == cfg.beam_width
            ids == Stage2Ids(K, end_ids[vector_id], live[g], profs)
            vals == Stage2Vals(K, live[g], profs)
            r == batch_topk_kernel(cfg, hyps, is_done, live[g], ids, vals, ite, vector_id)
        IN /\ temp_storage' = [topk_id |-> ids, topk_val |-> vals]
           /\ hyps' = r.hyps
           /\ is_done' = r.is_done
           /\ live' = [live EXCEPT ![g] = r.lv]
           /\ last' = r.last
    /\ phase' = "update"
    /\ nsteps' = nsteps + 1
    /\ UNCHANGED <<cfg, launchVars, ipcVars, extVars>>

\* ------------------------------------------------------------------------
\* The layer's update after the kernel: the token written at the current
\* position of every live beam is split into parent beam and token id, the
\* beam takes over its parent's length plus the new token, and a beam whose
\* new token is the end id is finished.
\* ------------------------------------------------------------------------
update_kernel ==
    /\ phase = "update"
    /\ LET g == global_batch_idx(last.ite, last.vector_id)
           K == cfg.beam_width
           lv == live[g]
           cur(b) == lv.sequence_lengths_src[b]
           word(b) == lv.output_ids[b][cur(b)]
           new_beam(b) == (word(b) \div vocab_size(K)) % K
           new_word(b) == word(b) % vocab_size(K)
           grown(b) == IF lv.finished[b] THEN cur(b) ELSE Min2(cur(b) + 1, max_seq_len - 1)
       IN live' = [live EXCEPT ![g] =
              [output_ids |-> [b \in Beams(K) |-> [lv.output_ids[b] EXCEPT ![cur(b)] = new_word(b)]],
               parent_ids |-> [b \in Beams(K) |-> [lv.parent_ids[b] EXCEPT ![cur(b)] = new_beam(b)]],
               cum_log_probs_src |-> lv.cum_log_probs_src,
               sequence_lengths_src |-> [b \in Beams(K) |-> grown(new_beam(b))],
               finished |-> [b \in Beams(K) |->
                                lv.finished[b] \/ new_word(b) = end_ids[last.vector_id]]]]
    /\ phase' = "decode"
    /\ UNCHANGED <<cfg, hyps, is_done, temp_storage, nsteps, last, launchVars, ipcVars, extVars>>

\* ------------------------------------------------------------------------
\* Idle values of the other components
\* ------------------------------------------------------------------------
LaunchIdle ==
    /\ call = [beam_width |-> 1, fast_build |-> FALSE, ndebug |-> TRUE, vocab_size |-> 1,
               sizeof_T |-> 4, batch_size |-> 1,
               dev |-> [max_active_blocks |-> 1, max_smem_per_sm |-> 0,
                        max_smem_per_block |-> 0, constant_smem |-> 0]]
    /\ disp = [pc |-> "idle", recursor |-> 0, log_beam_width |-> 0, MAX_K |-> 0,
               launched |-> <<>>, written |-> {}, error |-> "none"]

IpcIdle ==
    /\ peerAccess = <<>>
    /\ peer = <<>>
    /\ ipc = <<>>
    /\ gathered = <<>>

StageIdle == stage = [pc |-> "idle", K |-> 1, parts |-> 1, vocab_size |-> 1]

SampIdle == samp = [pc |-> "idle", kernel |-> "none", calls |-> 0]

DecIdle == dec = [pc |-> "off", issued |-> 0, completed |-> 0]

ExtIdle == StageIdle /\ SampIdle /\ DecIdle

BeamIdle ==
    /\ cfg = [beam_width |-> 1, ledger |-> FALSE]
    /\ hyps = <<>>
    /\ is_done = <<>>
    /\ live = <<>>
    /\ temp_storage = [topk_id |-> <<>>, topk_val |-> <<>>]
    /\ phase = "off"
    /\ nsteps = 0
    /\ last = NoLast

Init == BeamInit /\ LaunchIdle /\ IpcIdle /\ ExtIdle

Next ==
    \/ \E ite \in 0 .. ((batch_size \div local_batch_size) - 1) : BeamSearchStep(ite)
    \/ update_kernel

Spec == Init /\ [][Next]_vars

\* ------------------------------------------------------------------------
\* One run of batch_topk_kernel on drawn inputs: the second decode step of
\* request 0 with beam width MaxBeamWidth, non-early stopping and length
\* penalty 1.  The ledger holds beam_width - 1 hypotheses of score
\* -k * Scale, the live beams have one generated token each, any of them
\* may have been finished by a stop criterion, and the candidate rows are
\* drawn per beam.  The first step ranked its
\* candidates by value + diversity_rate * beam, took the stored hypothesis
\* from the first beam_width of them, scored it by that ranking value, and
\* wrote the live beams in rank order with their plain values: the last
\* live beam does not exceed the stored score, and a later live beam
\* exceeds an earlier one by less than the diversity bonus.
\* ------------------------------------------------------------------------

\* whether the first step can have left score h and the live scores cums
\* (a tie goes to the earlier beam, so the bounds are strict unless equal
\* scores come in beam order)
AfterFirstStep(c, h, cums) ==
    /\ \A b \in Beams(c.beam_width) :
          b + 1 < c.beam_width =>
              \/ cums[b + 1] <= cums[b]
              \/ cums[b + 1] < cums[b] + c.diversity_rates[0] * (c.beam_width - 1)
    /\ h >= cums[c.beam_width - 1]

SelectConfigs ==
    {[beam_width |-> MaxBeamWidth, ledger |-> TRUE,
      length_penalties |-> [g \in Requests |-> 1],
      early_stoppings |-> [g \in Requests |-> 0],
      diversity_rates |-> [g \in Requests |-> d]] : d \in {0, 3 * Scale}}

\* the ledger after K - 1 stores of score h at the first step
PartLedger(K, h) ==
    [EmptyLedger(K) EXCEPT
        !.num_beams = K - 1,
        !.min_normed_scores = h,
        !.normed_scores = [s \in Slots(K) |-> IF s < K - 1 THEN h ELSE @[s]],
        !.cum_log_probs = [s \in Slots(K) |-> IF s < K - 1 THEN h ELSE @[s]],
        !.sequence_lengths_tgt = [s \in Slots(K) |-> IF s < K - 1 THEN InputLen ELSE @[s]]]

\* the live beams after one decode step and its update; fin marks the beams
\* that the step's stop criteria (stop words) finished
GrownBeams(K, cums, fin) ==
    [FreshBeams(K) EXCEPT
        !.cum_log_probs_src = cums,
        !.finished = fin,
        !.sequence_lengths_src = [b \in Beams(K) |-> InputLen + 1],
        !.output_ids = [b \in Beams(K) |-> [@[b] EXCEPT ![InputLen] = 1]]]

InitSelect ==
    /\ cfg \in SelectConfigs
    /\ \E h \in {0 - (k * Scale) : k \in 1 .. 4},
          cums \in [Beams(MaxBeamWidth) -> {0 - (k * Scale) : k \in 1 .. 4}],
          fin \in [Beams(MaxBeamWidth) -> BOOLEAN] :
          /\ AfterFirstStep(cfg, h, cums)
          /\ hyps = [g \in Requests |-> IF g = 0 THEN PartLedger(cfg.beam_width, h)
                                        ELSE EmptyLedger(cfg.beam_width)]
          /\ live = [g \in Requests |-> IF g = 0 THEN GrownBeams(cfg.beam_width, cums, fin)
                                        ELSE FreshBeams(cfg.beam_width)]
    /\ is_done = [g \in Requests |-> FALSE]
    /\ \E profs \in [Beams(MaxBeamWidth) -> {[endFirst |-> e, base |-> b] : e \in BOOLEAN, b \in 1 .. 2}] :
          temp_storage = [topk_id |-> Stage2Ids(cfg.beam_width, end_ids[0], live[0], profs),
                          topk_val |-> Stage2Vals(cfg.beam_width, live[0], profs)]
    /\ phase = "select"
    /\ nsteps = 1
    /\ last = NoLast
    /\ LaunchIdle
    /\ IpcIdle
    /\ ExtIdle

\* the launch of lines 947-948 on the candidates in temp_storage
batch_topk_kernel_Launch ==
    /\ phase = "select"
    /\ LET r == batch_topk_kernel(cfg, hyps, is_done, live[0],
                                  temp_storage.topk_id, temp_storage.topk_val, 0, 0)
       IN /\ hyps' = r.hyps
          /\ is_done' = r.is_done
          /\ live' = [live EXCEPT ![0] = r.lv]
          /\ last' = r.last
    /\ phase' = "update"
    /\ nsteps' = nsteps + 1
    /\ UNCHANGED <<cfg, temp_storage, launchVars, ipcVars, extVars>>

NextSelect ==
    \/ batch_topk_kernel_Launch
    \/ update_kernel

SpecSelect == InitSelect /\ [][NextSelect]_vars

\* ------------------------------------------------------------------------
\* invokeTopkSoftMax and topK_softMax_kernelLauncher: the host side of one
\* call.  disp.pc is the position in the call; disp.launched lists the
\* kernels enqueued by it, disp.written the device buffers they write.
\* ------------------------------------------------------------------------
MaxBeamWidthArg == 66      \* beam_hyps.beam_width of a call is in -1 .. MaxBeamWidthArg
LoopCap == 8               \* iterations followed of the bucket loop (it may not end)

max_parts == 128
SmemOptInThreshold == 49152          \* 48 << 10
Waves == 240
BaseGridLimit == 256
BaseDefaultParts == 4

\* device attributes read by the launcher (lines 840-854)
Devices ==
    { [max_active_blocks |-> 8, max_smem_per_sm |-> 167936,
       max_smem_per_block |-> 166912, constant_smem |-> 1104],
      [max_active_blocks |-> 2, max_smem_per_sm |-> 1024,
       max_smem_per_block |-> 1024, constant_smem |-> 383] }
VocabSizes ==
    {1, 1000, 20500, 41024, 51200, 22000000} \cup (31 .. 40) \cup (125 .. 131)

\* variant: every bucket beyond the compiled ones falls into the largest one
MaxKOf_Clamp(log_beam_width, fast_build) ==
    IF log_beam_width <= 1 THEN 4
    ELSE IF log_beam_width = 2 \/ fast_build THEN 8
    ELSE IF log_beam_width = 3 THEN 16
    ELSE IF log_beam_width = 4 THEN 32
    ELSE 64

\* the switch of invokeTopkSoftMax: MAX_K of the case taken, 0 for default
MaxKOf(log_beam_width, fast_build) ==
    IF log_beam_width = 0 \/ log_beam_width = 1 THEN 4
    ELSE IF log_beam_width = 2 THEN 8
    ELSE IF ~fast_build /\ log_beam_width = 3 THEN 16
    ELSE IF ~fast_build /\ log_beam_width = 4 THEN 32
    ELSE IF ~fast_build /\ log_beam_width = 5 THEN 64
    ELSE 0

\* a / b on unsigned operands given as signed ints: a negative operand
\* stands for its value plus 2^64 (with b > 0 the launcher's dividend is
\* never negative).  Division by zero is undefined: z says whether it traps
\* or yields 0.
UDiv(a, b, z) ==
    IF b = 0 THEN [trap |-> z = "trap", v |-> 0]
    ELSE IF b > 0
    THEN [trap |-> FALSE, v |-> a \div b]
    ELSE [trap |-> FALSE, v |-> IF a >= 0 THEN 0 ELSE IF a >= b THEN 1 ELSE 0]

\* lines 864-867 and 871-874: voc_parts for occupancy occ
VocPartsAt(c, occ, z) ==
    LET d == c.dev
        extra_smem == (d.max_smem_per_sm - d.max_smem_per_block) + d.constant_smem
        spb == IF occ = 0 THEN [trap |-> z = "trap", v |-> 0]
               ELSE [trap |-> FALSE, v |-> d.max_smem_per_sm \div occ]
        dyn0 == spb.v - extra_smem
        dyn_smem_size == dyn0 - (dyn0 % c.sizeof_T)
        q == UDiv(c.sizeof_T * c.vocab_size + dyn_smem_size - 1, dyn_smem_size, z)
    IN [trap |-> spb.trap \/ q.trap, v |-> q.v]

\* lines 869-875: the loop lowering the occupancy
RECURSIVE OccLoop(_, _, _, _)
OccLoop(c, occ, vp, z) ==
    IF vp.trap \/ ~(occ > 0 /\ vp.v > max_parts)
    THEN vp
    ELSE OccLoop(c, occ - 1, VocPartsAt(c, occ, z), z)

\* variant: the vocabulary size is never found too large
VocabFits_Always(c) ==
    TRUE

\* line 857: the check of the fast path's capacity
VocabFits(c) ==
    c.vocab_size * c.sizeof_T <= (c.dev.max_smem_per_block - c.dev.constant_smem) * max_parts

\* lines 781-811: the stage-2 kernel launched for parts_per_beam, if any
Stage2Launch(c, parts_per_beam) ==
    IF parts_per_beam <= 32 \/ parts_per_beam <= 64 \/ parts_per_beam <= 128
    THEN << [kernel |-> "stage2", grid_x |-> c.batch_size * c.beam_width,
             grid_y |-> 1, parts |-> parts_per_beam,
             block |-> IF parts_per_beam <= 32 THEN 32
                       ELSE IF parts_per_beam <= 64 THEN 64 ELSE 128] >>
    ELSE <<>>

\* lines 888-925: the stage-1 kernel launched, or the failure before it
Stage1Launch(c, voc_parts, z) ==
    LET bb == c.batch_size * c.beam_width
    IN IF voc_parts <= max_parts
       THEN LET dq == UDiv(c.sizeof_T * (c.vocab_size + voc_parts - 1), voc_parts, z)
                dyn_smem_size == dq.v
                voc_size_chunk == dyn_smem_size \div c.sizeof_T
                setattr_fails == /\ dyn_smem_size >= SmemOptInThreshold
                                 /\ dyn_smem_size > c.dev.max_smem_per_block - c.dev.constant_smem
            IN [trap |-> dq.trap,
                error |-> IF setattr_fails THEN "cuda" ELSE "none",
                kernels |-> << [kernel |-> "stage1_fast", grid_x |-> bb, grid_y |-> voc_parts,
                                parts |-> voc_parts, block |-> voc_size_chunk] >>]
       ELSE LET vp == IF bb < BaseGridLimit
                      THEN Min2(max_parts, (Waves + bb - 1) \div bb)
                      ELSE BaseDefaultParts
            IN [trap |-> FALSE, error |-> "none",
                kernels |-> << [kernel |-> "stage1_base", grid_x |-> bb, grid_y |-> vp,
                                parts |-> vp, block |-> 0] >>]

BuffersOf(kernel) ==
    IF kernel = "stage1_fast" \/ kernel = "stage1_base" THEN {"tmp_buffer"}
    ELSE IF kernel = "stage2" THEN {"topk_id", "topk_val"}
    ELSE {"beam_hyps"}

\* the outcome of topK_softMax_kernelLauncher<T, MAX_K> for call c
LauncherOutcome(c, z) ==
    IF ~VocabFits(c)
    THEN [pc |-> "error", error |-> "vocab", kernels |-> <<>>]
    ELSE
        LET vp0 == VocPartsAt(c, c.dev.max_active_blocks, z)
            vp == OccLoop(c, c.dev.max_active_blocks - 1, vp0, z)
        IN IF vp.trap
           THEN [pc |-> "fault", error |-> "divide", kernels |-> <<>>]
           ELSE
               LET s1 == Stage1Launch(c, vp.v, z)
               IN IF s1.trap
                  THEN [pc |-> "fault", error |-> "divide", kernels |-> <<>>]
                  ELSE IF s1.error # "none"
                  THEN [pc |-> "error", error |-> s1.error, kernels |-> <<>>]
                  ELSE
                      LET s2 == Stage2Launch(c, vp.v)
                      IN IF s2 = <<>> /\ ~c.ndebug
                         THEN [pc |-> "fault", error |-> "assert", kernels |-> s1.kernels]
                         ELSE [pc |-> "done", error |-> "none",
                               kernels |-> s1.kernels \o s2 \o
                                   << [kernel |-> "batch_topk", grid_x |-> c.batch_size,
                                       grid_y |-> 1, parts |-> 0, block |-> 32] >>]

\* invokeTopkSoftMax is entered: lines 39-40
invokeTopkSoftMax_Enter ==
    /\ disp.pc = "idle"
    /\ \E bw \in (0 - 1) .. MaxBeamWidthArg, fb \in BOOLEAN, nd \in BOOLEAN, v \in VocabSizes,
          sz \in {2, 4}, b \in {1, 64}, d \in Devices :
          call' = [beam_width |-> bw, fast_build |-> fb, ndebug |-> nd, vocab_size |-> v,
                   sizeof_T |-> sz, batch_size |-> b, dev |-> d]
    /\ disp' = [disp EXCEPT !.pc = "loop", !.recursor = call'.beam_width - 1,
                            !.log_beam_width = 0]
    /\ UNCHANGED <<beamVars, ipcVars, extVars>>

\* one evaluation of the loop condition of line 41 (and line 42 if it holds);
\* x >> 1 of a signed int is an arithmetic shift
invokeTopkSoftMax_Loop ==
    /\ disp.pc = "loop"
    /\ LET r == disp.recursor \div 2
       IN IF r # 0
          THEN /\ disp.log_beam_width < LoopCap
               /\ disp' = [disp EXCEPT !.recursor = r, !.log_beam_width = @ + 1]
          ELSE disp' = [disp EXCEPT !.recursor = r, !.pc = "switch"]
    /\ UNCHANGED <<call, beamVars, ipcVars, extVars>>

\* variant: the switch takes CASE_K(4) whatever the bucket
invokeTopkSoftMax_Switch_Case4 ==
    /\ disp.pc = "switch"
    /\ disp' = [disp EXCEPT !.pc = "launcher", !.MAX_K = 4]
    /\ UNCHANGED <<call, beamVars, ipcVars, extVars>>

\* the switch of lines 44-62
invokeTopkSoftMax_Switch ==
    /\ disp.pc = "switch"
    /\ LET k == MaxKOf(disp.log_beam_width, call.fast_build)
       IN IF k = 0
          THEN disp' = [disp EXCEPT !.pc = "error", !.error = "beam_width"]
          ELSE disp' = [disp EXCEPT !.pc = "launcher", !.MAX_K = k]
    /\ UNCHANGED <<call, beamVars, ipcVars, extVars>>

\* topK_softMax_kernelLauncher<T, MAX_K>, the whole call
topK_softMax_kernelLauncher ==
    /\ disp.pc = "launcher"
    /\ \E z \in {"trap", "zero"} :
          LET o == LauncherOutcome(call, z)
          IN disp' = [disp EXCEPT
                 !.pc = o.pc,
                 !.error = o.error,
                 !.launched = o.kernels,
                 !.written = UNION {BuffersOf(o.kernels[n].kernel) : n \in DOMAIN o.kernels}]
    /\ UNCHANGED <<call, beamVars, ipcVars, extVars>>


InitDispatch == BeamIdle /\ LaunchIdle /\ IpcIdle /\ ExtIdle

NextDispatch ==
    \/ invokeTopkSoftMax_Enter
    \/ invokeTopkSoftMax_Loop
    \/ invokeTopkSoftMax_Switch
    \/ topK_softMax_kernelLauncher

SpecDispatch == InitDispatch /\ [][NextDispatch]_vars

\* invokeTopkSoftMax is entered with any beam width, on one vocabulary and
\* one device
invokeTopkSoftMax_EnterWidth ==
    /\ disp.pc = "idle"
    /\ \E bw \in (0 - 1) .. MaxBeamWidthArg, fb \in BOOLEAN, nd \in BOOLEAN, b \in {1, 64} :
          call' = [beam_width |-> bw, fast_build |-> fb, ndebug |-> nd, vocab_size |-> 51200,
                   sizeof_T |-> 4, batch_size |-> b,
                   dev |-> [max_active_blocks |-> 8, max_smem_per_sm |-> 167936,
                            max_smem_per_block |-> 166912, constant_smem |-> 1104]]
    /\ disp' = [disp EXCEPT !.pc = "loop", !.recursor = call'.beam_width - 1,
                            !.log_beam_width = 0]
    /\ UNCHANGED <<beamVars, ipcVars, extVars>>

NextWidth ==
    \/ invokeTopkSoftMax_EnterWidth
    \/ invokeTopkSoftMax_Loop
    \/ invokeTopkSoftMax_Switch
    \/ topK_softMax_kernelLauncher

\* the host thread inside a call keeps running
SpecWidthLive == InitDispatch /\ [][NextWidth]_vars /\ WF_vars(NextWidth)

\* ------------------------------------------------------------------------
\* ipcUtils: setPeerAccess, IpcMemory and AllReduceBuffers on the ranks of
\* one tensor-parallel group.  Rank r runs on device r.
\* ------------------------------------------------------------------------
TpSize == 3                \* worldConfig.getTensorParallelism()
MaxPeerCalls == 2          \* setPeerAccess calls per rank when called on its own

Ranks == 0 .. (TpSize - 1)
\* the sizes AllReduceBuffers constructs an IpcMemory for, in order
BufferSizes == <<"bufferSize", "bufferSize", "flagsSize", "flagsSize">>
NumIpc == Len(BufferSizes)

LocalPtr(r, m) == [kind |-> "local", owner |-> r, mem |-> m]
\* cudaIpcGetMemHandle of rank r's buffer m
HandleOf(r, m) == [owner |-> r, mem |-> m]
\* the pointer a successful cudaIpcOpenMemHandle of h returns
OpenedPtr(h) == [kind |-> "mapped", owner |-> h.owner, mem |-> h.mem]

\* the loop of setPeerAccess skips srcNode
FirstDest(srcNode) == IF srcNode = 0 THEN 1 ELSE 0

\* what cudaGetLastError returns after the enable / disable call of lines
\* 306-314; fault stands for any other failure of the platform
PeerCallError(enable, wasEnabled, fault) ==
    IF fault THEN "cudaErrorOther"
    ELSE IF enable
    THEN (IF wasEnabled THEN "cudaErrorPeerAccessAlreadyEnabled" ELSE "cudaSuccess")
    ELSE (IF wasEnabled THEN "cudaSuccess" ELSE "cudaErrorPeerAccessNotEnabled")

\* variant: every error code is passed to the check
PeerErrorThrows_Strict(error) ==
    error # "cudaSuccess"

\* lines 315-318: the errors that make setPeerAccess throw
PeerErrorThrows(error) ==
    /\ error # "cudaErrorPeerAccessAlreadyEnabled"
    /\ error # "cudaErrorPeerAccessNotEnabled"
    /\ error # "cudaSuccess"


\* the state of a setPeerAccess(worldConfig, enable) call on entry
PeerEntered(p, srcNode, enable) ==
    [status |-> IF FirstDest(srcNode) < TpSize THEN "running" ELSE "done",
     enable |-> enable, destNode |-> FirstDest(srcNode), log |-> <<>>, calls |-> p.calls + 1]

\* setPeerAccess is called on its own, with either value of enable
setPeerAccess_Call(r) ==
    /\ ipc = <<>>
    /\ peer[r].status # "running"
    /\ peer[r].calls < MaxPeerCalls
    /\ \E enable \in BOOLEAN : peer' = [peer EXCEPT ![r] = PeerEntered(@, r, enable)]
    /\ UNCHANGED <<peerAccess, ipc, gathered, beamVars, launchVars, extVars>>

\* one iteration of the loop of lines 296-319 for the next peer
setPeerAccess_Step(r) ==
    /\ peer[r].status = "running"
    /\ \E fault \in BOOLEAN :
          LET p == peer[r]
              dest == p.destNode
              was == dest \in peerAccess[r]
              error == PeerCallError(p.enable, was, fault)
              next == IF dest + 1 = r THEN dest + 2 ELSE dest + 1
              entry == [dest |-> dest, enable |-> p.enable, before |-> was, error |-> error]
          IN /\ peerAccess' = [peerAccess EXCEPT ![r] =
                    IF error # "cudaSuccess" THEN @
                    ELSE IF p.enable THEN @ \cup {dest} ELSE @ \ {dest}]
             /\ peer' = [peer EXCEPT ![r] =
                    [p EXCEPT !.log = Append(@, entry),
                              !.destNode = IF PeerErrorThrows(error) THEN dest ELSE next,
                              !.status = IF PeerErrorThrows(error) THEN "failed"
                                         ELSE IF next < TpSize THEN "running" ELSE "done"]]
    /\ UNCHANGED <<ipc, gathered, beamVars, launchVars, extVars>>

PeerInit ==
    /\ peerAccess = [r \in Ranks |-> {}]
    /\ peer = [r \in Ranks |-> [status |-> "idle", enable |-> TRUE, destNode |-> 0,
                                    log |-> <<>>, calls |-> 0]]

InitPeer == BeamIdle /\ LaunchIdle /\ PeerInit /\ ipc = <<>> /\ gathered = <<>> /\ ExtIdle

NextPeer ==
    \/ \E r \in Ranks : setPeerAccess_Call(r)
    \/ \E r \in Ranks : setPeerAccess_Step(r)

SpecPeer == InitPeer /\ [][NextPeer]_vars

\* ------------------------------------------------------------------------
\* IpcMemory and AllReduceBuffers.  ipc[r] is rank r's process:
\*   pc        position: idle, peer, export, gather, open, finish,
\*             constructed, destroy, destroyed, failed, terminated
\*   memIdx    the IpcMemory under construction (index into BufferSizes)
\*   nodeId    the loop variable of allocateIpcMemory / destroyIpcMemory
\*   handles   the array read back from the all-gather
\*   cur       mCommPtrs of the IpcMemory under construction
\*   mems      mIpcMemoryHandles: the constructed IpcMemory objects
\*   d         the element of mems being destroyed (from 1)
\*   unwinding the destruction follows a throw of the constructor
\*   open      the foreign mappings open in this process (device state)
\*   closed    the pointers passed to cudaIpcCloseMemHandle, in order (history)
\*   torn      the elements of mems whose destroyIpcMemory has returned (history)
\*   mAllReduceCommPtrs   the flat pointer table
\* ------------------------------------------------------------------------
IpcStart ==
    [pc |-> "idle", memIdx |-> 0, nodeId |-> 0, handles |-> <<>>, cur |-> <<>>,
     mems |-> <<>>, d |-> 0, unwinding |-> FALSE, open |-> {}, closed |-> <<>>,
     torn |-> {}, mAllReduceCommPtrs |-> <<>>]

\* variant: slot nodeId is read from the slot after it
GatheredSlot_Shifted(serialHandles, nodeId) ==
    serialHandles[(nodeId + 1) % TpSize].h

\* lines 347-351: handles[nodeId] as copied out of serialHandles
GatheredSlot(serialHandles, nodeId) ==
    serialHandles[nodeId].h

\* variant: every entry of mCommPtrs is passed to the close call
ClosesEntry_All(nodeId, mTpRank) ==
    TRUE

\* line 382: the entries destroyIpcMemory passes to cudaIpcCloseMemHandle
ClosesEntry(nodeId, mTpRank) ==
    nodeId # mTpRank

\* AllReduceBuffers::AllReduceBuffers is entered: line 394
AllReduceBuffers_Enter(r) ==
    /\ ipc # <<>>
    /\ ipc[r].pc = "idle"
    /\ peer' = [peer EXCEPT ![r] = PeerEntered(@, r, TRUE)]
    /\ ipc' = [ipc EXCEPT ![r].pc = "peer"]
    /\ UNCHANGED <<peerAccess, gathered, beamVars, launchVars, extVars>>

\* setPeerAccess has returned or thrown: lines 394-404
AllReduceBuffers_AfterPeer(r) ==
    /\ ipc # <<>>
    /\ ipc[r].pc = "peer"
    /\ peer[r].status \in {"done", "failed"}
    /\ ipc' = [ipc EXCEPT ![r].pc = IF peer[r].status = "done" THEN "export" ELSE "failed"]
    /\ UNCHANGED <<peerAccess, peer, gathered, beamVars, launchVars, extVars>>

\* IpcMemory::IpcMemory and allocateIpcMemory up to the contribution to the
\* all-gather: lines 324-343
allocateIpcMemory_Export(r) ==
    /\ ipc # <<>>
    /\ ipc[r].pc = "export"
    /\ ipc[r].memIdx < NumIpc
    /\ gathered' = [gathered EXCEPT ![ipc[r].memIdx][r] =
                        [set |-> TRUE, h |-> HandleOf(r, ipc[r].memIdx)]]
    /\ ipc' = [ipc EXCEPT ![r].pc = "gather",
                          ![r].cur = [n \in Ranks |-> [kind |-> "null", owner |-> 0, mem |-> 0]]]
    /\ UNCHANGED <<peerAccess, peer, beamVars, launchVars, extVars>>

\* variant: the all-gather returns without waiting for the other ranks
allocateIpcMemory_Gather_NoWait(r) ==
    /\ ipc # <<>>
    /\ ipc[r].pc = "gather"
    /\ ipc' = [ipc EXCEPT ![r].pc = "open",
                          ![r].nodeId = 0,
                          ![r].handles = [n \in Ranks |-> GatheredSlot(gathered[ipc[r].memIdx], n)]]
    /\ UNCHANGED <<peerAccess, peer, gathered, beamVars, launchVars, extVars>>

\* the all-gather returns once every rank has contributed: lines 343-351
allocateIpcMemory_Gather(r) ==
    /\ ipc # <<>>
    /\ ipc[r].pc = "gather"
    /\ \A n \in Ranks : gathered[ipc[r].memIdx][n].set
    /\ ipc' = [ipc EXCEPT ![r].pc = "open",
                          ![r].nodeId = 0,
                          ![r].handles = [n \in Ranks |-> GatheredSlot(gathered[ipc[r].memIdx], n)]]
    /\ UNCHANGED <<peerAccess, peer, gathered, beamVars, launchVars, extVars>>

\* one iteration of the loop of lines 353-366, or its exit
allocateIpcMemory_Open(r) ==
    /\ ipc # <<>>
    /\ ipc[r].pc = "open"
    /\ LET q == ipc[r]
           n == q.nodeId
       IN IF n >= TpSize
          THEN ipc' = [ipc EXCEPT
                   ![r].mems = Append(@, [mTpRank |-> r, mCommPtrs |-> q.cur,
                                          mBuffer |-> LocalPtr(r, q.memIdx)]),
                   ![r].memIdx = q.memIdx + 1,
                   ![r].pc = IF q.memIdx + 1 < NumIpc THEN "export" ELSE "finish"]
          ELSE IF n = r
          THEN ipc' = [ipc EXCEPT ![r].cur[n] = LocalPtr(r, q.memIdx), ![r].nodeId = n + 1]
          ELSE \E ok \in BOOLEAN :
                  IF ok
                  THEN ipc' = [ipc EXCEPT ![r].cur[n] = OpenedPtr(q.handles[n]),
                                          ![r].open = @ \cup {OpenedPtr(q.handles[n])},
                                          ![r].nodeId = n + 1]
                  ELSE ipc' = [ipc EXCEPT ![r].pc = "destroy", ![r].unwinding = TRUE,
                                          ![r].d = 1, ![r].nodeId = 0]
    /\ UNCHANGED <<peerAccess, peer, gathered, beamVars, launchVars, extVars>>

\* the rest of the constructor: lines 411-420
AllReduceBuffers_Finish(r) ==
    /\ ipc # <<>>
    /\ ipc[r].pc = "finish"
    /\ ipc' = [ipc EXCEPT
           ![r].pc = "constructed",
           ![r].mAllReduceCommPtrs =
               [x \in 1 .. (NumIpc * TpSize) |->
                   ipc[r].mems[((x - 1) \div TpSize) + 1].mCommPtrs[(x - 1) % TpSize]]]
    /\ UNCHANGED <<peerAccess, peer, gathered, beamVars, launchVars, extVars>>

\* the AllReduceBuffers object is destroyed: its members are
AllReduceBuffers_Destroy(r) ==
    /\ ipc # <<>>
    /\ ipc[r].pc = "constructed"
    /\ ipc' = [ipc EXCEPT ![r].pc = "destroy", ![r].d = 1, ![r].nodeId = 0]
    /\ UNCHANGED <<peerAccess, peer, gathered, beamVars, launchVars, extVars>>

\* ~IpcMemory / destroyIpcMemory of element d: one iteration of the loop of
\* lines 380-386, or its exit
destroyIpcMemory_Step(r) ==
    /\ ipc # <<>>
    /\ ipc[r].pc = "destroy"
    /\ LET q == ipc[r]
           n == q.nodeId
       IN IF q.d > Len(q.mems)
          THEN ipc' = [ipc EXCEPT ![r].pc = IF q.unwinding THEN "failed" ELSE "destroyed"]
          ELSE IF n >= TpSize
          THEN ipc' = [ipc EXCEPT ![r].torn = @ \cup {q.d}, ![r].d = q.d + 1, ![r].nodeId = 0]
          ELSE IF ~ClosesEntry(n, q.mems[q.d].mTpRank)
          THEN ipc' = [ipc EXCEPT ![r].nodeId = n + 1]
          ELSE LET ptr == q.mems[q.d].mCommPtrs[n]
               IN IF ptr \in q.open
                  THEN ipc' = [ipc EXCEPT ![r].open = @ \ {ptr},
                                          ![r].closed = Append(@, ptr),
                                          ![r].nodeId = n + 1]
                  ELSE ipc' = [ipc EXCEPT ![r].closed = Append(@, ptr),
                                          ![r].pc = "terminated"]
    /\ UNCHANGED <<peerAccess, peer, gathered, beamVars, launchVars, extVars>>

InitIpc ==
    /\ BeamIdle
    /\ LaunchIdle
    /\ ExtIdle
    /\ PeerInit
    /\ ipc = [r \in Ranks |-> IpcStart]
    /\ gathered = [m \in 0 .. (NumIpc - 1) |-> [r \in Ranks |-> [set |-> FALSE, h |-> HandleOf(r, m)]]]

NextIpc ==
    \/ \E r \in Ranks : AllReduceBuffers_Enter(r)
    \/ \E r \in Ranks : setPeerAccess_Step(r)
    \/ \E r \in Ranks : AllReduceBuffers_AfterPeer(r)
    \/ \E r \in Ranks : allocateIpcMemory_Export(r)
    \/ \E r \in Ranks : allocateIpcMemory_Gather(r)
    \/ \E r \in Ranks : allocateIpcMemory_Open(r)
    \/ \E r \in Ranks : AllReduceBuffers_Finish(r)
    \/ \E r \in Ranks : AllReduceBuffers_Destroy(r)
    \/ \E r \in Ranks : destroyIpcMemory_Step(r)

SpecIpc == InitIpc /\ [][NextIpc]_vars

\* ------------------------------------------------------------------------
\* Properties
\* ------------------------------------------------------------------------
StoredSet == {last.stored[n] : n \in DOMAIN last.stored}
LastRequest == global_batch_idx(last.ite, last.vector_id)

\* C1: with the ledger enabled the completed-beam count of every request
\* stays within 0 .. beam_width, also while a worst hypothesis is being
\* replaced (lo and hi are the extremes the count took during the last run
\* of the selection loop).
C1_NumBeamsBounded ==
    cfg.ledger =>
        /\ \A g \in Requests : hyps[g].num_beams >= 0 /\ hyps[g].num_beams <= cfg.beam_width
        /\ last.lo >= 0
        /\ last.hi <= cfg.beam_width

\* a step in which the ledger was full and its worst hypothesis was replaced
C1_Witness ==
    /\ cfg.ledger
    /\ \E e \in StoredSet : e.replaced
    /\ last.lo = cfg.beam_width - 1
    /\ hyps[LastRequest].num_beams = cfg.beam_width

\* C2: for every request holding at least one finished hypothesis,
\* min_normed_scores is the least normalized score of ledger slots
\* 0 .. num_beams-1.
C2_MinIsMinimum ==
    cfg.ledger =>
        \A g \in Requests :
            hyps[g].num_beams >= 1 =>
                /\ \E b \in 0 .. (hyps[g].num_beams - 1) :
                       hyps[g].normed_scores[b] = hyps[g].min_normed_scores
                /\ \A b \in 0 .. (hyps[g].num_beams - 1) :
                       hyps[g].normed_scores[b] >= hyps[g].min_normed_scores

\* the worst hypothesis was replaced by a strictly better one, so that the
\* minimum had to rise
C2_Witness ==
    /\ cfg.ledger
    /\ \E e \in StoredSet : e.replaced /\ e.normed_score > e.worst
    /\ hyps[LastRequest].num_beams = cfg.beam_width
    /\ hyps[LastRequest].min_normed_scores < FLT_MAX

\* the beam whose token sits at position j of the sequence that request g's
\* live beam p holds at length n: p itself at the last position, and the
\* parent recorded by the later position's beam before that
RECURSIVE Ancestor(_, _, _, _)
Ancestor(g, p, n, j) ==
    IF j >= n - 1 THEN p
    ELSE live[g].parent_ids[Ancestor(g, p, n, j + 1)][j + 1]

\* the stores of the last run that no later store of the run overwrote
FinalStores ==
    {n \in DOMAIN last.stored :
        \A m \in DOMAIN last.stored : m > n => last.stored[m].slot # last.stored[n].slot}

\* C3: a hypothesis stored from source beam p holds, at positions
\* 0 .. current_step-1, the tokens of p's ancestry (parent-id chain walked
\* backward from p), the end id at position current_step, and length
\* current_step.
C3_StoredRowIsAncestry ==
    \A n \in FinalStores :
        LET e == last.stored[n]
            g == LastRequest
            row == hyps[g].output_ids_tgt[e.slot]
        IN /\ \A j \in 0 .. (e.current_step - 1) :
                  row[j] = live[g].output_ids[Ancestor(g, e.prev_id, e.current_step, j)][j]
           /\ row[e.current_step] = end_ids[last.vector_id]
           /\ hyps[g].sequence_lengths_tgt[e.slot] = e.current_step

\* a stored hypothesis whose ancestry changes beam at a generated position
C3_Witness ==
    \E n \in FinalStores :
        LET e == last.stored[n]
        IN /\ e.current_step >= InputLen + 2
           /\ \E j \in InputLen .. (e.current_step - 2) :
                 /\ Ancestor(LastRequest, e.prev_id, e.current_step, j) # e.prev_id
                 /\ live[LastRequest].output_ids[0][j] # live[LastRequest].output_ids[1][j]

\* the completion predicate of request r under r's own early-stopping mode
EarlyStoppingPredicate(r) ==
    LET mode == cfg.early_stoppings[r]
        lp == cfg.length_penalties[r]
        len == IF mode = 2 /\ lp > 0
               THEN max_seq_len - input_lengths[r]
               ELSE live[r].sequence_lengths_src[0] - input_lengths[r]
    IN mode = 1
       \/ FloatGE(hyps[r].min_normed_scores,
                  apply_length_penalty(live[r].cum_log_probs_src[0], len, lp))

\* C4: is_done[r] only if request r holds beam_width finished hypotheses
\* and the early-stopping predicate of r's mode held in the step that set
\* the flag; a request with fewer hypotheses is not done.
C4_DoneOnlyWhenFullAndPredicate ==
    cfg.ledger =>
        /\ \A r \in Requests : is_done[r] => hyps[r].num_beams = cfg.beam_width
        /\ \A r \in Requests : hyps[r].num_beams < cfg.beam_width => ~is_done[r]
        /\ (phase = "update" /\ last.wrote_done /\ is_done[last.vector_id])
               => EarlyStoppingPredicate(last.vector_id)

\* ------------------------------------------------------------------------
\* Properties of invokeTopkSoftMax and the launcher (SpecDispatch)
\* ------------------------------------------------------------------------
BeamWidthUnsupported ==
    call.beam_width > (IF call.fast_build THEN 8 ELSE 64)

\* C5: a call of invokeTopkSoftMax with beam_width > 64 (> 8 under
\* FAST_BUILD) leaves the bucket loop, takes the default case and raises
\* the error; the launcher is never entered, no kernel is launched and no
\* device buffer (temporary storage, beam_hyps) is written.
C5_UnsupportedWidthRaises ==
    (BeamWidthUnsupported /\ disp.pc # "idle") =>
        /\ disp.pc \in {"loop", "switch", "error"}
        /\ disp.pc = "loop" => disp.log_beam_width < LoopCap
        /\ disp.pc = "switch" => disp.log_beam_width >= (IF call.fast_build THEN 3 ELSE 6)
        /\ disp.pc = "error" => disp.error = "beam_width"
        /\ disp.launched = <<>>
        /\ disp.written = {}

C5_Witness ==
    /\ disp.pc = "error"
    /\ disp.error = "beam_width"
    /\ ~call.fast_build
    /\ call.beam_width = 65

VocabTooLarge ==
    call.vocab_size * call.sizeof_T
        > (call.dev.max_smem_per_block - call.dev.constant_smem) * 128

\* C10: when vocab_size * sizeof(T) exceeds the maximal dynamic shared
\* memory per block times 128, the launcher, once it has run, has failed
\* with the vocabulary error and has launched no kernel and written no
\* buffer.
C10_VocabTooLargeFailsBeforeLaunch ==
    (VocabTooLarge /\ disp.MAX_K # 0 /\ disp.pc # "launcher") =>
        /\ disp.pc = "error"
        /\ disp.error = "vocab"
        /\ disp.launched = <<>>
        /\ disp.written = {}

C10_Witness ==
    /\ VocabTooLarge
    /\ disp.MAX_K # 0
    /\ disp.pc = "error"
    /\ disp.error = "vocab"

\* ------------------------------------------------------------------------
\* Properties of IpcMemory and AllReduceBuffers (SpecIpc) and of
\* setPeerAccess (SpecPeer)
\* ------------------------------------------------------------------------
SetupPcs == {"export", "gather", "open", "finish", "constructed"}

\* C6: every constructed IpcMemory m of rank i has a peer-pointer array of
\* exactly N entries, entry i is rank i's own buffer, and every other
\* entry j is the mapping opened from the handle rank j exported for its
\* buffer m (open for as long as the object is not being destroyed).
C6_CommPtrsAfterSetup ==
    \A i \in Ranks : \A k \in 1 .. Len(ipc[i].mems) :
        LET M == ipc[i].mems[k]
            m == k - 1
        IN /\ DOMAIN M.mCommPtrs = Ranks
           /\ Cardinality(DOMAIN M.mCommPtrs) = TpSize
           /\ M.mCommPtrs[i] = M.mBuffer
           /\ M.mBuffer = LocalPtr(i, m)
           /\ \A j \in Ranks \ {i} :
                 /\ gathered[m][j].set
                 /\ M.mCommPtrs[j] = OpenedPtr(HandleOf(j, m))
                 /\ ipc[i].pc \in SetupPcs => M.mCommPtrs[j] \in ipc[i].open

C6_Witness ==
    \A i \in Ranks : ipc[i].pc = "constructed" /\ Len(ipc[i].mems) = NumIpc

CloseCount(r, ptr) ==
    Cardinality({x \in DOMAIN ipc[r].closed : ipc[r].closed[x] = ptr})

\* C7: once destroyIpcMemory of an IpcMemory has returned, each foreign
\* pointer of it has been closed exactly once and is no longer open; a
\* local buffer is never passed to the close call and no close fails;
\* after the teardown of a constructed AllReduceBuffers no foreign mapping
\* is open.
C7_TeardownClosesForeignOnce ==
    \A r \in Ranks :
        /\ \A k \in ipc[r].torn :
              LET M == ipc[r].mems[k]
              IN /\ \A j \in Ranks \ {r} :
                       /\ CloseCount(r, M.mCommPtrs[j]) = 1
                       /\ M.mCommPtrs[j] \notin ipc[r].open
                 /\ CloseCount(r, M.mBuffer) = 0
        /\ \A x \in DOMAIN ipc[r].closed : ipc[r].closed[x].kind = "mapped"
        /\ ipc[r].pc # "terminated"
        /\ ipc[r].pc = "destroyed" => ipc[r].open = {}

C7_Witness ==
    \E r \in Ranks :
        /\ ipc[r].pc = "destroyed"
        /\ ipc[r].torn = 1 .. NumIpc
        /\ Len(ipc[r].closed) = NumIpc * (TpSize - 1)

BenignPeerErrors == {"cudaErrorPeerAccessAlreadyEnabled", "cudaErrorPeerAccessNotEnabled"}

\* C8: in a setPeerAccess call, an enable of an enabled pair or a disable
\* of a disabled pair yields the matching benign code, does not fail the
\* call, and the loop goes on to the remaining peers (a finished call has
\* visited every peer); any other error is the last thing the call does
\* and leaves it failed.
C8_RedundantPeerCallIsBenign ==
    \A r \in Ranks :
        LET p == peer[r]
        IN /\ \A n \in DOMAIN p.log :
                 LET e == p.log[n]
                 IN /\ (e.error # "cudaErrorOther" /\ e.enable = e.before)
                           => e.error \in BenignPeerErrors
                    /\ e.error \in BenignPeerErrors
                           => (n < Len(p.log) \/ p.status # "failed")
                    /\ e.error = "cudaErrorOther"
                           => (n = Len(p.log) /\ p.status = "failed")
           /\ p.status = "done"
                 => {p.log[n].dest : n \in DOMAIN p.log} = Ranks \ {r}
           /\ p.status = "failed"
                 => (p.log # <<>> /\ p.log[Len(p.log)].error = "cudaErrorOther")

C8_Witness ==
    /\ \E r \in Ranks : \E n \in 1 .. (Len(peer[r].log) - 1) :
          /\ peer[r].log[n].error = "cudaErrorPeerAccessAlreadyEnabled"
          /\ peer[r].status = "done"
    /\ \E r \in Ranks : \E n \in 1 .. (Len(peer[r].log) - 1) :
          /\ peer[r].log[n].error = "cudaErrorPeerAccessNotEnabled"
          /\ peer[r].status = "done"

\* C9: while an AllReduceBuffers of rank r is constructed, r has peer
\* access to every other rank, and once the object is destroyed every pair
\* its constructor enabled is disabled again.
C9_PeerAccessDisabledAtTeardown ==
    \A r \in Ranks :
        /\ ipc[r].pc \in SetupPcs => peerAccess[r] = Ranks \ {r}
        /\ ipc[r].pc = "destroyed" =>
              \A n \in DOMAIN peer[r].log :
                  peer[r].log[n].error = "cudaSuccess" => peer[r].log[n].dest \notin peerAccess[r]

\* ------------------------------------------------------------------------
\* Further properties of the hypothesis selection (Spec)
\* ------------------------------------------------------------------------
\* C17: a finished candidate that meets a full ledger replaces the worst
\* hypothesis only if its normalized score is strictly better than
\* min_normed_scores; with an equal or worse score the ledger is unchanged.
C17_ReplaceOnlyIfStrictlyBetter ==
    \A e \in StoredSet : e.replaced => e.normed_score > e.worst

\* the normalized score of live beam b of request r at its current length
LiveScore(r, b) ==
    apply_length_penalty(live[r].cum_log_probs_src[b],
                         live[r].sequence_lengths_src[b] - input_lengths[r],
                         cfg.length_penalties[r])


\* C18: under non-early stopping, after a kernel run that leaves request r
\* with beam_width finished hypotheses, is_done[r] is true exactly when no
\* live beam of r has a normalized score above min_normed_scores[r].
C18_NonEarlyDoneIffNoBeamExceeds ==
    (/\ cfg.ledger
     /\ phase = "update"
     /\ last.wrote_done
     /\ cfg.early_stoppings[LastRequest] = 0
     /\ hyps[LastRequest].num_beams = cfg.beam_width)
        => (is_done[LastRequest]
               <=> \A b \in Beams(cfg.beam_width) :
                       LET score == LiveScore(LastRequest, b)
                           min == hyps[LastRequest].min_normed_scores
                       IN ~(score # NaN /\ min # NaN /\ score > min))

\* ------------------------------------------------------------------------
\* The vocabulary sections of the stage-1 kernels (SpecDispatch)
\* ------------------------------------------------------------------------
\* lines 482 and 566: the section length of launched stage-1 kernel k, the
\* kernel argument in the fast kernel and computed from gridDim.y in the base
\* kernel
v_local(k, vocab) ==
    IF k.kernel = "stage1_fast" THEN k.block
    ELSE (vocab + k.grid_y - 1) \div k.grid_y

\* lines 483 and 567
section_start(k, vocab, y) == v_local(k, vocab) * y

section_end_NoClamp(k, vocab, y) == section_start(k, vocab, y) + v_local(k, vocab)

\* lines 484 and 568
section_end(k, vocab, y) == Min2(section_start(k, vocab, y) + v_local(k, vocab), vocab)

\* the stage-1 kernels of the launch
Stage1Kernels ==
    {disp.launched[n] : n \in {m \in DOMAIN disp.launched :
                                  disp.launched[m].kernel \in {"stage1_fast", "stage1_base"}}}

\* C20: the sections of the chunks 0 .. P - 1 of a launched stage-1 kernel
\* start at 0, each ends where the next starts, the last ends at vocab_size,
\* none has a negative length, and in the fast kernel none is empty.
C20_SectionsPartitionVocab ==
    \A k \in Stage1Kernels :
        /\ section_start(k, call.vocab_size, 0) = 0
        /\ section_end(k, call.vocab_size, k.grid_y - 1) = call.vocab_size
        /\ \A y \in 0 .. (k.grid_y - 1) :
              /\ section_start(k, call.vocab_size, y) <= section_end(k, call.vocab_size, y)
              /\ y < k.grid_y - 1 =>
                    section_end(k, call.vocab_size, y) = section_start(k, call.vocab_size, y + 1)
              /\ k.kernel = "stage1_fast" =>
                    section_start(k, call.vocab_size, y) < section_end(k, call.vocab_size, y)

\* a fast-kernel launch over several chunks whose last section is shorter
C20_Witness ==
    \E k \in Stage1Kernels :
        /\ k.kernel = "stage1_fast"
        /\ k.grid_y > 1
        /\ call.vocab_size % k.grid_y # 0
        /\ section_end(k, call.vocab_size, k.grid_y - 1) = call.vocab_size

\* ------------------------------------------------------------------------
\* Stage 1 (fast kernel) and stage 2 on the log_probs row of one live beam
\* (vector_id 0, not finished, no bias): SpecMerge
\* ------------------------------------------------------------------------
MaxChunks == 3
MAX_T_VAL == FLT_MAX

\* MAX_K2 = 2 * MAX_K of the bucket of beam width K (launcher line 889)
MAX_K2(K) == 2 * MaxKOf(IF K <= 2 THEN 0 ELSE IF K <= 4 THEN 1 ELSE 2, FALSE)

\* lines 481 and 564
PACKED_TOP_KMD_SIZE(K) == 2 * MAX_K2(K) + 2

\* the launch of line 901: P chunks of voc_size_chunk entries
FastKernel(vocab, P) ==
    [kernel |-> "stage1_fast", grid_x |-> 1, grid_y |-> P, parts |-> P,
     block |-> (vocab + P - 1) \div P]

\* the chunk counts the launcher can choose for a row of vocab entries
ChunkCounts(vocab) ==
    {P \in 1 .. MaxChunks :
        section_start(FastKernel(vocab, P), vocab, P - 1) < vocab}

\* lines 615-627: buf_smem_logprobs of chunk y
SectionBuf(st, y) ==
    LET k == FastKernel(st.vocab_size, st.parts)
        lo == section_start(k, st.vocab_size, y)
        hi == section_end(k, st.vocab_size, y)
    IN [j \in 0 .. (hi - lo - 1) |-> st.log_probs[lo + j]]

RECURSIVE MaxValue(_, _, _)
MaxValue(buf, j, m) ==
    IF j \notin DOMAIN buf THEN m
    ELSE MaxValue(buf, j + 1, IF buf[j] > m THEN buf[j] ELSE m)

\* lines 630-673: word idx of the summary that chunk y writes to tmp_buffer:
\* 2K absolute ids, at offset MAX_K2 their 2K values, then d and m (the
\* words between are never read; d, a sum of exponentials, is kept as 0)
SummaryWord(st, y, idx) ==
    LET k == FastKernel(st.vocab_size, st.parts)
        top == ExtractTopk(SectionBuf(st, y), st.vocab_size, 2 * st.K, <<>>)
    IN IF idx < 2 * st.K
       THEN section_start(k, st.vocab_size, y) + top[idx + 1].key
       ELSE IF idx >= MAX_K2(st.K) /\ idx < MAX_K2(st.K) + 2 * st.K
       THEN top[idx - MAX_K2(st.K) + 1].value
       ELSE IF idx = 2 * MAX_K2(st.K) + 1
       THEN MaxValue(SectionBuf(st, y), 0, 0 - MAX_T_VAL)
       ELSE 0

beam_online_softmax_topk_stage1_kernel_fast ==
    /\ stage.pc = "loaded"
    /\ stage' = [stage EXCEPT
          !.pc = "stage1",
          !.tmp_buffer = [idx \in 0 .. (stage.parts * PACKED_TOP_KMD_SIZE(stage.K) - 1) |->
                             SummaryWord(stage, idx \div PACKED_TOP_KMD_SIZE(stage.K),
                                         idx % PACKED_TOP_KMD_SIZE(stage.K))]]
    /\ UNCHANGED <<beamVars, launchVars, ipcVars, samp, dec>>

\* line 720: the entries of its chunk a stage-2 thread looks at
ChunkEntries(K) == 0 .. (K - 1)

\* lines 715-726: the partial arg-max of thread c over its chunk
RECURSIVE ChunkPartial(_, _, _, _, _)
ChunkPartial(buf_s, K, c, i, partial) ==
    IF i \notin ChunkEntries(K)
    THEN partial
    ELSE LET current_index == c * PACKED_TOP_KMD_SIZE(K) + i
             current_value == buf_s[c * PACKED_TOP_KMD_SIZE(K) + MAX_K2(K) + i]
         IN ChunkPartial(buf_s, K, c, i + 1,
                         ArgMax(partial, [key |-> current_index, value |-> current_value]))

\* line 728: the block-wide reduction of the threads' partials
RECURSIVE BlockReduceTopK(_, _, _, _, _, _)
BlockReduceTopK(buf_s, K, P, vocab, c, total) ==
    IF c >= P
    THEN total
    ELSE BlockReduceTopK(buf_s, K, P, vocab, c + 1,
             ArgMax(total, ChunkPartial(buf_s, K, c, 0,
                                        [key |-> vocab - 1, value |-> 0 - MAX_T_VAL])))

\* lines 713-748: iterations k .. 2K - 1 of the merge loop; kv is
\* buf_smem_kv so far
RECURSIVE Stage2Loop(_, _, _, _, _, _)
Stage2Loop(buf_s, K, P, vocab, k, kv) ==
    IF k >= 2 * K
    THEN kv
    ELSE LET total_topk == BlockReduceTopK(buf_s, K, P, vocab, 0,
                                           [key |-> vocab - 1, value |-> 0 - MAX_T_VAL])
             temp_offset == total_topk.key
             global_offset == buf_s[temp_offset]
         IN Stage2Loop([buf_s EXCEPT ![temp_offset] = vocab - 1,
                                     ![temp_offset + MAX_K2(K)] = 0 - MAX_T_VAL],
                       K, P, vocab, k + 1,
                       Append(kv, [key |-> global_offset, value |-> total_topk.value]))

\* lines 751-758: total_md.m over the chunks
RECURSIVE TotalM(_, _, _, _, _)
TotalM(buf_s, K, P, c, m) ==
    IF c >= P THEN m
    ELSE LET mc == buf_s[c * PACKED_TOP_KMD_SIZE(K) + 2 * MAX_K2(K) + 1]
         IN TotalM(buf_s, K, P, c + 1, IF mc > m THEN mc ELSE m)

beam_online_softmax_topk_stage2_kernel ==
    /\ stage.pc = "stage1"
    /\ LET kv == Stage2Loop(stage.tmp_buffer, stage.K, stage.parts, stage.vocab_size, 0, <<>>)
           m == TotalM(stage.tmp_buffer, stage.K, stage.parts, 0, 0 - MAX_T_VAL)
       IN stage' = [stage EXCEPT
              !.pc = "stage2",
              !.buf_smem_kv = [i \in 0 .. (2 * stage.K - 1) |-> kv[i + 1]],
              !.ids = [i \in 0 .. (2 * stage.K - 1) |-> kv[i + 1].key],
              !.vals = [i \in 0 .. (2 * stage.K - 1) |->
                           kv[i + 1].value - m + stage.cum_log_probs]]
    /\ UNCHANGED <<beamVars, launchVars, ipcVars, samp, dec>>

InitMerge ==
    /\ \E K \in 1 .. MaxBeamWidth :
       \E vocab \in (2 * K) .. (2 * MaxBeamWidth + 1) :
       \E P \in ChunkCounts(vocab), row \in [0 .. (vocab - 1) -> {0 - v : v \in 0 .. 2}] :
          stage = [pc |-> "loaded", K |-> K, parts |-> P, vocab_size |-> vocab,
                   log_probs |-> row, cum_log_probs |-> 0 - Scale,
                   tmp_buffer |-> <<>>, buf_smem_kv |-> <<>>, ids |-> <<>>, vals |-> <<>>]
    /\ SampIdle
    /\ DecIdle
    /\ BeamIdle
    /\ LaunchIdle
    /\ IpcIdle

NextMerge ==
    \/ beam_online_softmax_topk_stage1_kernel_fast
    \/ beam_online_softmax_topk_stage2_kernel

SpecMerge == InitMerge /\ [][NextMerge]_vars

\* C19: the 2K pairs stage 2 writes for a beam are 2K distinct entries of
\* its row, and the pair of rank i carries the (i+1)-th highest value of the
\* whole row, so the values are in non-increasing order.
C19_Stage2IsTopOfRow ==
    stage.pc = "stage2" =>
        \A i \in 0 .. (2 * stage.K - 1) :
            LET key == stage.buf_smem_kv[i].key
                value == stage.buf_smem_kv[i].value
            IN /\ key \in DOMAIN stage.log_probs
               /\ stage.log_probs[key] = value
               /\ \A j \in 0 .. (i - 1) : stage.buf_smem_kv[j].key # key
               /\ Cardinality({w \in DOMAIN stage.log_probs : stage.log_probs[w] > value}) <= i
               /\ Cardinality({w \in DOMAIN stage.log_probs : stage.log_probs[w] >= value}) > i

\* ------------------------------------------------------------------------
\* The batched sampling kernels on a batch of slots (SpecSampling):
\* invokeBatchTopKSampling and invokeBatchTopPSampling.  A call reads the
\* logits of every slot, the finished flags and skipDecode, and writes
\* outputIds, sequenceLength, the finished flags, cumLogProbs and the
\* random states; finishedInput and finishedOutput are the same buffer, as
\* in the caller of lines 1014-1019.  samp.before keeps the buffers as they
\* were when the last call started.
\* ------------------------------------------------------------------------
MaxSampCalls == 2
MaxSupportedTopK == 1024
SampSlots == 0 .. 1
SampVocab == 0 .. 2
SampEndId == 0
SampLogits == {<<0, 0 - 1, 0 - 2>>, <<0 - 2, 0, 0 - 1>>, <<0 - 1, 0 - 2, 0>>, <<0 - 1, 0, 0>>}
TopKs == {1, 2, MaxSupportedTopK, MaxSupportedTopK + 1}

\* the logit of token v in row
LogitOf(row, v) == row[v + 1]

\* the probability weight of token v: 2 ^ (logit + 2)
WeightOf(row, v) == Pow(2, LogitOf(row, v) + 2)

\* token u comes before token v in descending order of logit
Before(row, u, v) ==
    LogitOf(row, u) > LogitOf(row, v) \/ (LogitOf(row, u) = LogitOf(row, v) /\ u < v)


\* variant: the candidates are the whole vocabulary
TopKCandidates_All(row, k) == SampVocab

\* the k highest-logit tokens
TopKCandidates(row, k) == {v \in SampVocab : Cardinality({u \in SampVocab : Before(row, u, v)}) < k}

RECURSIVE SumWeights(_, _)
SumWeights(row, S) ==
    IF S = {} THEN 0
    ELSE LET v == CHOOSE x \in S : TRUE
         IN WeightOf(row, v) + SumWeights(row, S \ {v})


\* the smallest prefix, in descending order of probability, whose cumulative
\* probability reaches p percent
TopPCandidates(row, p) ==
    {v \in SampVocab :
        SumWeights(row, {u \in SampVocab : Before(row, u, v)}) * 100 < p * SumWeights(row, SampVocab)}

\* variant: skipDecode is ignored
Skips_Never(st, slot) == FALSE

\* skipDecode: the call skips the slot
Skips(st, slot) == st.skipDecode[slot]

\* variant: a finished slot is decoded like any other
ExitsEarly_Never(st, slot) == FALSE

\* finishedInput: the call exits early for the slot
ExitsEarly(st, slot) == st.finished[slot]

\* whether the call decodes the slot

\* variant: every top-k value is accepted
TopKSupported_Any(k) == TRUE

\* the top-k values the kernel is compiled for
TopKSupported(k) == k <= MaxSupportedTopK

\* the buffers of slot after token was drawn for it
Sampled(st, slot, token) ==
    [st EXCEPT
        !.outputIds[slot] = Append(@, token),
        !.sequenceLength[slot] = IF token = SampEndId THEN @ ELSE @ + 1,
        !.finished[slot] = (token = SampEndId),
        !.cumLogProbs[slot] = @ + LogitOf(st.logits[slot], token),
        !.curandstate[slot] = [@ EXCEPT !.offset = @ + 1]]

\* the buffers after the given slots of the batch were handled, tokens[slot]
\* being the token drawn for a decoded slot
RECURSIVE SampleBatch(_, _, _)
SampleBatch(st, slots, tokens) ==
    IF slots = {} THEN st
    ELSE LET slot == CHOOSE x \in slots : TRUE
         IN SampleBatch(IF ~Skips(st, slot) /\ ~ExitsEarly(st, slot) THEN Sampled(st, slot, tokens[slot]) ELSE st,
                        slots \ {slot}, tokens)

\* the buffers a call starts on: new logits and skipDecode flags
CallStart(rows, skip) ==
    [samp EXCEPT !.logits = rows, !.skipDecode = skip,
                 !.before = [outputIds |-> samp.outputIds,
                             sequenceLength |-> samp.sequenceLength,
                             finished |-> samp.finished,
                             cumLogProbs |-> samp.cumLogProbs,
                             curandstate |-> samp.curandstate]]

invokeBatchTopKSampling ==
    /\ samp.pc = "ready"
    /\ samp.kernel = "topk"
    /\ samp.calls < MaxSampCalls
    /\ \E rows \in [SampSlots -> SampLogits], skip \in [SampSlots -> BOOLEAN] :
          LET st == CallStart(rows, skip)
          IN IF ~TopKSupported(samp.maxTopK)
             THEN samp' = [st EXCEPT !.pc = "error", !.error = "TllmException",
                                     !.calls = @ + 1]
             ELSE \E tokens \in [SampSlots -> SampVocab] :
                     /\ \A slot \in SampSlots :
                           tokens[slot] \in TopKCandidates(rows[slot], samp.topKs[slot])
                     /\ samp' = [SampleBatch(st, SampSlots, tokens) EXCEPT
                                    !.calls = @ + 1, !.launches = @ + 1]
    /\ UNCHANGED <<beamVars, launchVars, ipcVars, stage, dec>>

invokeBatchTopPSampling ==
    /\ samp.pc = "ready"
    /\ samp.kernel = "topp"
    /\ samp.calls < MaxSampCalls
    /\ \E rows \in [SampSlots -> SampLogits], skip \in [SampSlots -> BOOLEAN] :
          LET st == CallStart(rows, skip)
          IN \E tokens \in [SampSlots -> SampVocab] :
                /\ \A slot \in SampSlots :
                      tokens[slot] \in TopPCandidates(rows[slot], samp.topPs[slot])
                /\ samp' = [SampleBatch(st, SampSlots, tokens) EXCEPT
                               !.calls = @ + 1, !.launches = @ + 1]
    /\ UNCHANGED <<beamVars, launchVars, ipcVars, stage, dec>>

NoBuffers ==
    [outputIds |-> [slot \in SampSlots |-> <<>>],
     sequenceLength |-> [slot \in SampSlots |-> 0],
     finished |-> [slot \in SampSlots |-> FALSE],
     cumLogProbs |-> [slot \in SampSlots |-> 0],
     curandstate |-> [slot \in SampSlots |-> [seed |-> 0, offset |-> 0]]]

InitSampling ==
    /\ \E kernel \in {"topk", "topp"}, k \in TopKs, ks \in [SampSlots -> TopKs],
          ps \in [SampSlots -> {50, 100}], seed \in 0 .. 1 :
          /\ \A slot \in SampSlots : ks[slot] <= k
          /\ kernel = "topp" => (k = 1 /\ \A slot \in SampSlots : ks[slot] = 1)
          /\ kernel = "topk" => \A slot \in SampSlots : ps[slot] = 100
          /\ samp = [pc |-> "ready", kernel |-> kernel, calls |-> 0, launches |-> 0,
                     error |-> "none", maxTopK |-> k, topKs |-> ks, topPs |-> ps,
                     logits |-> [slot \in SampSlots |-> <<0, 0, 0>>],
                     skipDecode |-> [slot \in SampSlots |-> FALSE],
                     outputIds |-> NoBuffers.outputIds,
                     sequenceLength |-> NoBuffers.sequenceLength,
                     finished |-> NoBuffers.finished,
                     cumLogProbs |-> NoBuffers.cumLogProbs,
                     curandstate |-> [slot \in SampSlots |-> [seed |-> seed, offset |-> 0]],
                     before |-> NoBuffers]
    /\ StageIdle
    /\ DecIdle
    /\ BeamIdle
    /\ LaunchIdle
    /\ IpcIdle

NextSampling ==
    \/ invokeBatchTopKSampling
    \/ invokeBatchTopPSampling

SpecSampling == InitSampling /\ [][NextSampling]_vars

\* ------------------------------------------------------------------------
\* Properties of the sampling kernels (SpecSampling)
\* ------------------------------------------------------------------------
\* the last call decoded the slot
DecodedLast(slot) == ~samp.before.finished[slot] /\ ~samp.skipDecode[slot]

\* the token the last call wrote for the slot
LastToken(slot) == samp.outputIds[slot][Len(samp.outputIds[slot])]

\* the buffers of the slot are as they were when the last call started
SlotUntouched(slot) ==
    /\ samp.outputIds[slot] = samp.before.outputIds[slot]
    /\ samp.sequenceLength[slot] = samp.before.sequenceLength[slot]
    /\ samp.cumLogProbs[slot] = samp.before.cumLogProbs[slot]
    /\ samp.curandstate[slot] = samp.before.curandstate[slot]

\* C11: a slot decoded by batched top-k sampling with topK = 1 (topP = 1.0)
\* gets a token of maximal logit in its row, whatever the random state.
C11_GreedyTopKSelectsArgMax ==
    (samp.kernel = "topk" /\ samp.pc = "ready" /\ samp.calls > 0) =>
        \A slot \in SampSlots :
            (samp.topKs[slot] = 1 /\ samp.topPs[slot] = 100 /\ DecodedLast(slot)) =>
                \A v \in SampVocab :
                    LogitOf(samp.logits[slot], LastToken(slot)) >= LogitOf(samp.logits[slot], v)

\* a greedy slot with a started random state got the last token of the
\* vocabulary, the maximum of its row
C11_Witness ==
    /\ samp.kernel = "topk" /\ samp.pc = "ready"
    /\ \E slot \in SampSlots :
          /\ samp.topKs[slot] = 1
          /\ DecodedLast(slot)
          /\ samp.before.curandstate[slot].offset > 0
          /\ samp.curandstate[slot].seed = 1
          /\ samp.logits[slot] = <<0 - 1, 0 - 2, 0>>
          /\ LastToken(slot) = 2

\* C12: a batched top-k sampling call with a top-k above 1024 has raised
\* TllmException, launched nothing and left every buffer as it was; a call
\* with a top-k of at most 1024 raises nothing.
C12_TopKAboveMaxRaises ==
    (samp.kernel = "topk" /\ samp.calls > 0) =>
        IF samp.maxTopK > MaxSupportedTopK
        THEN /\ samp.pc = "error"
             /\ samp.error = "TllmException"
             /\ samp.launches = 0
             /\ \A slot \in SampSlots :
                   SlotUntouched(slot) /\ samp.finished[slot] = samp.before.finished[slot]
        ELSE /\ samp.pc = "ready"
             /\ samp.error = "none"
             /\ samp.launches = samp.calls

C12_Witness ==
    /\ samp.kernel = "topk"
    /\ samp.maxTopK = MaxSupportedTopK + 1
    /\ samp.pc = "error"
    /\ samp.error = "TllmException"

\* C15: after a top-p sampling call the finished flag of a slot is set
\* exactly when it was set on input or the call sampled the slot's end id
\* for it; hence a finished slot stays finished.
C15_FinishedIffWasFinishedOrEndId ==
    (samp.kernel = "topp" /\ samp.calls > 0) =>
        \A slot \in SampSlots :
            samp.finished[slot] <=>
                \/ samp.before.finished[slot]
                \/ DecodedLast(slot) /\ LastToken(slot) = SampEndId

\* one slot was finished on input and is still finished, the other
\* finished in the last call by sampling its end id
C15_Witness ==
    /\ samp.kernel = "topp"
    /\ \E a, b \in SampSlots :
          /\ samp.before.finished[a] /\ ~samp.skipDecode[a] /\ samp.finished[a]
          /\ ~samp.before.finished[b] /\ DecodedLast(b) /\ LastToken(b) = SampEndId
          /\ samp.finished[b]

\* C16: a top-p sampling call leaves output ids, sequence length, cumulative
\* log-probability and random state of a slot that was finished on input or
\* has skipDecode set as they were, and appends one sampled token for every
\* other slot.
C16_SkippedSlotsUntouched ==
    (samp.kernel = "topp" /\ samp.calls > 0) =>
        \A slot \in SampSlots :
            IF samp.before.finished[slot] \/ samp.skipDecode[slot]
            THEN SlotUntouched(slot)
            ELSE /\ Len(samp.outputIds[slot]) = Len(samp.before.outputIds[slot]) + 1
                 /\ LastToken(slot) \in SampVocab
                 /\ samp.curandstate[slot] # samp.before.curandstate[slot]

\* a call with one skipDecode slot that is not finished and has tokens
\* already, and one decoded slot
C16_Witness ==
    /\ samp.kernel = "topp"
    /\ samp.calls > 1
    /\ \E a, b \in SampSlots :
          /\ samp.skipDecode[a] /\ ~samp.before.finished[a]
          /\ Len(samp.outputIds[a]) > 0
          /\ SlotUntouched(a)
          /\ DecodedLast(b)
          /\ Len(samp.outputIds[b]) = Len(samp.before.outputIds[b]) + 1

\* ------------------------------------------------------------------------
\* GptDecoderBatch: newRequests, forwardAsync, forwardSync and the stream
\* the decode work is enqueued on (SpecDecoder).  dec holds
\*   mNbSteps, mFinished, mMaxNewTokens, inUse          per slot
\*   work        the decode steps enqueued so far, oldest first: the slots
\*               each decodes; step n belongs to completion token n
\*   completed   how many of them the device has finished (in stream order)
\*   devFinished  per slot: the finished state in device memory
\*   issued, mForwardToken   tokens returned so far, the latest one
\*   pc, waitFor, tokenless  the caller: "idle", or "sync" inside forwardSync
\*   lastSync    the last forwardSync that returned (history)
\*   skipped     the slots the last forwardAsync left out as finished (history)
\* ------------------------------------------------------------------------
MaxForwardCalls == 3
MaxNewRequestsCalls == 2
DecSlots == 0 .. 1

\* variant: every slot named active is decoded
ActiveSet_All(d, active) == {slot \in active : d.inUse[slot]}

\* the slots a step decodes: named active by the caller and not finished
ActiveSet(d, active) == {slot \in active : d.inUse[slot] /\ ~d.mFinished[slot]}

\* variant: the wait returns at once
EventDone_Immediately(d, token) == TRUE

\* the event of the token has been reached by the stream
EventDone(d, token) == d.completed >= token

newRequests ==
    /\ dec.pc = "idle"
    /\ dec.completed = Len(dec.work)
    /\ dec.requests < MaxNewRequestsCalls
    /\ \E seqSlots \in (SUBSET DecSlots) \ {{}}, maxNew \in [DecSlots -> {1, 2}] :
          /\ \A slot \in seqSlots : ~dec.inUse[slot] \/ dec.mFinished[slot]
          /\ dec' = [dec EXCEPT
                !.requests = @ + 1,
                !.inUse = [slot \in DecSlots |-> @[slot] \/ slot \in seqSlots],
                !.mNbSteps = [slot \in DecSlots |-> IF slot \in seqSlots THEN 0 ELSE @[slot]],
                !.mFinished = [slot \in DecSlots |-> IF slot \in seqSlots THEN FALSE ELSE @[slot]],
                !.devFinished = [slot \in DecSlots |-> IF slot \in seqSlots THEN FALSE ELSE @[slot]],
                !.mMaxNewTokens = [slot \in DecSlots |->
                                      IF slot \in seqSlots THEN maxNew[slot] ELSE @[slot]]]
    /\ UNCHANGED <<beamVars, launchVars, ipcVars, stage, samp>>

\* forwardAsync(output, input) with input.active = active: enqueues the step
\* and returns token issued + 1 without waiting for the stream
forwardAsync(active) ==
    /\ dec.pc = "idle"
    /\ dec.issued < MaxForwardCalls
    /\ LET slots == ActiveSet(dec, active)
       IN dec' = [dec EXCEPT
              !.work = Append(@, slots),
              !.issued = @ + 1,
              !.mForwardToken = dec.issued + 1,
              !.skipped = {slot \in active : dec.inUse[slot] /\ dec.mFinished[slot]},
              !.mNbSteps = [slot \in DecSlots |-> IF slot \in slots THEN @[slot] + 1 ELSE @[slot]],
              !.mFinished = [slot \in DecSlots |->
                                IF slot \in slots
                                THEN dec.mNbSteps[slot] + 1 >= dec.mMaxNewTokens[slot]
                                ELSE @[slot]]]
    /\ UNCHANGED <<beamVars, launchVars, ipcVars, stage, samp>>

\* the device finishes the oldest unfinished step; a decoded slot may
\* produce its end token
StreamStep ==
    /\ dec.completed < Len(dec.work)
    /\ \E ends \in SUBSET dec.work[dec.completed + 1] :
          dec' = [dec EXCEPT
              !.completed = @ + 1,
              !.devFinished = [slot \in DecSlots |-> @[slot] \/ slot \in ends]]
    /\ UNCHANGED <<beamVars, launchVars, ipcVars, stage, samp>>

\* forwardSync(token) is called
forwardSync_Token(token) ==
    /\ dec.pc = "idle"
    /\ token \in 1 .. dec.issued
    /\ dec' = [dec EXCEPT !.pc = "sync", !.waitFor = token, !.tokenless = FALSE]
    /\ UNCHANGED <<beamVars, launchVars, ipcVars, stage, samp>>

\* forwardSync() is called: it waits on mForwardToken
forwardSync_Last ==
    /\ dec.pc = "idle"
    /\ dec.issued > 0
    /\ dec' = [dec EXCEPT !.pc = "sync", !.waitFor = dec.mForwardToken, !.tokenless = TRUE]
    /\ UNCHANGED <<beamVars, launchVars, ipcVars, stage, samp>>

\* forwardSync returns: the event is reached, the finished states of the
\* step's slots are read back
forwardSync_Return ==
    /\ dec.pc = "sync"
    /\ EventDone(dec, dec.waitFor)
    /\ dec' = [dec EXCEPT
          !.pc = "idle",
          !.lastSync = [token |-> dec.waitFor, tokenless |-> dec.tokenless,
                        issued |-> dec.issued, completed |-> dec.completed],
          !.mFinished = [slot \in DecSlots |->
                            @[slot] \/ (slot \in dec.work[dec.waitFor] /\ dec.devFinished[slot])]]
    /\ UNCHANGED <<beamVars, launchVars, ipcVars, stage, samp>>

InitDecoder ==
    /\ dec = [pc |-> "idle", issued |-> 0, completed |-> 0, requests |-> 0,
              work |-> <<>>, mForwardToken |-> 0, waitFor |-> 0, tokenless |-> FALSE,
              inUse |-> [slot \in DecSlots |-> FALSE],
              mNbSteps |-> [slot \in DecSlots |-> 0],
              mFinished |-> [slot \in DecSlots |-> FALSE],
              devFinished |-> [slot \in DecSlots |-> FALSE],
              mMaxNewTokens |-> [slot \in DecSlots |-> 1],
              skipped |-> {},
              lastSync |-> [token |-> 0, tokenless |-> FALSE, issued |-> 0, completed |-> 0]]
    /\ StageIdle
    /\ SampIdle
    /\ BeamIdle
    /\ LaunchIdle
    /\ IpcIdle

NextDecoder ==
    \/ newRequests
    \/ \E active \in SUBSET DecSlots : forwardAsync(active)
    \/ StreamStep
    \/ \E token \in 1 .. MaxForwardCalls : forwardSync_Token(token)
    \/ forwardSync_Last
    \/ forwardSync_Return

SpecDecoder == InitDecoder /\ [][NextDecoder]_vars

\* C13: forwardAsync is enabled whenever the caller is not inside
\* forwardSync, whatever the stream has finished; a forwardSync that has
\* returned found every step up to its token's finished; and a token-less
\* forwardSync waited for the token of the most recent forwardAsync.
C13_AsyncReturnsSyncWaits ==
    /\ (dec.pc = "idle" /\ dec.issued < MaxForwardCalls) =>
           \A active \in SUBSET DecSlots : ENABLED forwardAsync(active)
    /\ dec.lastSync.token > 0 =>
           /\ dec.lastSync.completed >= dec.lastSync.token
           /\ dec.lastSync.tokenless => dec.lastSync.token = dec.lastSync.issued

\* two forwardAsync calls returned with nothing finished by the stream, then
\* a token-less forwardSync returned after both steps
C13_Witness ==
    /\ dec.pc = "idle"
    /\ dec.lastSync.tokenless
    /\ dec.lastSync.token = 2
    /\ dec.lastSync.issued = 2
    /\ dec.completed = 2
    /\ dec.issued = 3

\* C14: a step never decodes a slot whose mFinished is set, and mNbSteps of
\* such a slot changes only when newRequests resets it (to 0, with mFinished
\* cleared).
C14_FinishedSlotStaysOut ==
    [][\A slot \in DecSlots :
          dec.mFinished[slot] =>
              /\ Len(dec'.work) > Len(dec.work) => slot \notin dec'.work[Len(dec'.work)]
              /\ \/ dec'.mNbSteps[slot] = dec.mNbSteps[slot]
                 \/ dec'.mNbSteps[slot] = 0 /\ ~dec'.mFinished[slot] /\ dec'.requests > dec.requests]_vars

\* the last forwardAsync named a finished slot active and left it out, while
\* decoding the other slot
C14_Witness ==
    /\ dec.skipped # {}
    /\ dec.issued > 1
    /\ dec.work[dec.issued] # {}
    /\ \E slot \in dec.skipped : dec.mFinished[slot] /\ dec.mNbSteps[slot] > 0

\* ------------------------------------------------------------------------
\* The live beams written by one batch_topk_kernel run (Spec)
\* ------------------------------------------------------------------------
\* C21: without the ledger a kernel run writes candidate b of the ranking,
\* end token or not, as the new token and cumulative log-probability of live
\* beam b for b = 0 .. K-1, nothing else of the live beams, and leaves every
\* ledger and is_done as they were.
C21_NoLedgerWritesTopKInRankOrder ==
    [][(~cfg.ledger /\ phase = "decode" /\ phase' = "update") =>
          LET g == global_batch_idx(last'.ite, last'.vector_id)
              K == cfg.beam_width
              cta == cta_topk(K, FALSE, cfg.diversity_rates[g], temp_storage'.topk_val)
              key(b) == cta[b + 1].key
          IN /\ live'[g] = [live[g] EXCEPT
                    !.output_ids = [b \in Beams(K) |->
                        [@[b] EXCEPT ![live[g].sequence_lengths_src[b]] =
                                         temp_storage'.topk_id[key(b)]]],
                    !.cum_log_probs_src = [b \in Beams(K) |-> temp_storage'.topk_val[key(b)]]]
             /\ \A r \in Requests \ {g} : live'[r] = live[r]
             /\ hyps' = hyps
             /\ is_done' = is_done
             /\ last'.stored = <<>>]_vars

\* without the ledger, two live beams were written and one of the new
\* tokens is the end token
C21_Witness ==
    /\ ~cfg.ledger
    /\ phase = "update"
    /\ cfg.beam_width = MaxBeamWidth
    /\ last.selected_beams = cfg.beam_width
    /\ LET g == global_batch_idx(last.ite, last.vector_id)
       IN \E b \in Beams(cfg.beam_width) :
             live[g].output_ids[b][live[g].sequence_lengths_src[b]] % vocab_size(cfg.beam_width)
                 = end_ids[last.vector_id]

\* C23: with the ledger, a kernel run on a request holding fewer than
\* beam_width finished hypotheses ends with selected_beams = K and with every
\* live beam 0 .. K-1 holding one candidate of this step (not the end token)
\* as its new token together with that candidate's cumulative
\* log-probability, distinct beams holding distinct candidates.
C23_EveryLiveBeamGetsToken ==
    [][(cfg.ledger /\ phase = "decode" /\ phase' = "update" /\ ~last'.returned_early) =>
          LET g == global_batch_idx(last'.ite, last'.vector_id)
              K == cfg.beam_width
              ids == temp_storage'.topk_id
              vals == temp_storage'.topk_val
          IN /\ last'.selected_beams = K
             /\ \E pick \in [Beams(K) -> DOMAIN ids] :
                   /\ \A b, c \in Beams(K) : b # c => pick[b] # pick[c]
                   /\ \A b \in Beams(K) :
                         /\ ids[pick[b]] % vocab_size(K) # end_ids[last'.vector_id]
                         /\ live'[g].output_ids[b][live[g].sequence_lengths_src[b]] = ids[pick[b]]
                         /\ live'[g].cum_log_probs_src[b] = vals[pick[b]]]_vars

\* ------------------------------------------------------------------------
\* The length that normalizes a stored hypothesis (SpecSelect)
\* ------------------------------------------------------------------------
\* C24: every hypothesis a kernel run stores was normalized with the
\* generated length and the finished flag of its parent beam prev_id, the
\* beam whose sequence length is the position of its end token.
C24_NormalizedByParentBeam ==
    (cfg.ledger /\ phase = "update" /\ ~last.returned_early) =>
        LET g == global_batch_idx(last.ite, last.vector_id)
            lv == live[g]
            cta == cta_topk(cfg.beam_width, TRUE, cfg.diversity_rates[g], temp_storage.topk_val)
        IN \A n \in DOMAIN last.stored :
              LET e == last.stored[n]
                  seq_len == lv.sequence_lengths_src[e.prev_id] - input_lengths[g]
                  pad == IF lv.finished[e.prev_id] THEN 0 ELSE 1
              IN /\ e.current_step = lv.sequence_lengths_src[e.prev_id]
                 /\ e.normed_score = apply_length_penalty(cta[e.rank + 1].value, seq_len + pad,
                                                          cfg.length_penalties[g])

\* ------------------------------------------------------------------------
\* The request whose completed-beam count decides is_done (Spec)
\* ------------------------------------------------------------------------
\* C25: the is_done update of a kernel run decides from the completed-beam
\* count of request ite * local_batch_size + vector_id, the request whose
\* ledger the selection loop of the block updated: the value written equals
\* the one obtained from num_beams of that request.
C25_DoneReadsCountOfOwnRequest ==
    (cfg.ledger /\ phase = "update" /\ last.wrote_done) =>
        LET g == global_batch_idx(last.ite, last.vector_id)
        IN is_done[last.vector_id] =
               IsDoneValue(cfg.beam_width, hyps[g].num_beams, cfg.early_stoppings[g],
                           cfg.length_penalties[g], input_lengths[g], hyps[g], live[g])

\* ------------------------------------------------------------------------
\* A kernel run on a request whose ledger is full (Spec)
\* ------------------------------------------------------------------------
\* C26: a kernel run on a request that holds beam_width finished hypotheses
\* at its start leaves the ledger of the request, its live beams (output
\* ids, cumulative log-probabilities) and is_done as they were.
C26_FullLedgerStepChangesNothing ==
    [][(cfg.ledger /\ phase = "decode" /\ phase' = "update"
        /\ hyps[global_batch_idx(last'.ite, last'.vector_id)].num_beams = cfg.beam_width) =>
          /\ hyps' = hyps
          /\ live' = live
          /\ is_done' = is_done]_vars

\* a kernel run returned at once on a request with two finished hypotheses
C26_Witness ==
    /\ cfg.ledger
    /\ phase = "update"
    /\ last.returned_early
    /\ cfg.beam_width = MaxBeamWidth
    /\ hyps[global_batch_idx(last.ite, last.vector_id)].num_beams = cfg.beam_width
    /\ nsteps > 1

\* ------------------------------------------------------------------------
\* The handle exchange of allocateIpcMemory (SpecIpc)
\* ------------------------------------------------------------------------
\* C22: a rank that has left the all-gather of buffer m holds in slot j of
\* its handle array the handle rank j exported for its buffer m, for every
\* rank j, and every rank has contributed to that all-gather by then; every
\* foreign mapping a rank has open was opened from a handle its owner had
\* exported and contributed.
C22_HandlesGatheredBeforeOpen ==
    \A r \in Ranks :
        /\ ipc[r].pc = "open" =>
              \A j \in Ranks :
                 /\ gathered[ipc[r].memIdx][j].set
                 /\ ipc[r].handles[j] = HandleOf(j, ipc[r].memIdx)
                 /\ ipc[j].memIdx >= ipc[r].memIdx
        /\ \A ptr \in ipc[r].open :
              /\ ptr.owner # r
              /\ gathered[ptr.mem][ptr.owner].set
              /\ ipc[ptr.owner].memIdx >= ptr.mem

\* one rank has opened a peer's handle of buffer 1 while another rank is
\* still inside the all-gather of that buffer
C22_Witness ==
    \E r, j \in Ranks :
        /\ r # j
        /\ ipc[r].pc = "open"
        /\ ipc[r].memIdx = 1
        /\ OpenedPtr(HandleOf(j, 1)) \in ipc[r].open
        /\ ipc[j].pc = "gather"
        /\ ipc[j].memIdx = 1

C28_InvokeTerminates ==
    (disp.pc = "loop") ~> (disp.pc \in {"done", "error", "fault"})

\* ------------------------------------------------------------------------
\* The bucket invokeTopkSoftMax dispatches to (SpecDispatch)
\* ------------------------------------------------------------------------
\* C29 as stated: for every beam width from 1 to 64 the call enters the
\* launcher instantiated with the smallest MAX_K of {4, 8, 16, 32, 64} that
\* is >= beam_width.
C29_SmallestBucketForEveryWidth ==
    (disp.pc \in {"launcher", "done", "fault", "error"} /\ call.beam_width \in 1 .. 64) =>
        /\ disp.MAX_K \in {4, 8, 16, 32, 64}
        /\ disp.MAX_K >= call.beam_width
        /\ \A k \in {4, 8, 16, 32, 64} : k >= call.beam_width => disp.MAX_K <= k

\* C29 amended: for every beam width from 1 to 64 (from 1 to 8 in a
\* FAST_BUILD build) the call enters the launcher instantiated with the
\* smallest MAX_K of {4, 8, 16, 32, 64} that is >= beam_width; in a
\* FAST_BUILD build the widths 9 .. 64 raise the unsupported-beam-width
\* error and no launcher is entered.
C29_SmallestCompiledBucket ==
    (disp.pc \in {"launcher", "done", "fault", "error"} /\ call.beam_width \in 1 .. 64) =>
        IF call.fast_build /\ call.beam_width > 8
        THEN disp.pc = "error" /\ disp.error = "beam_width" /\ disp.MAX_K = 0
        ELSE /\ disp.MAX_K \in {4, 8, 16, 32, 64}
             /\ disp.MAX_K >= call.beam_width
             /\ \A k \in {4, 8, 16, 32, 64} : k >= call.beam_width => disp.MAX_K <= k

\* the launcher for MAX_K = 32 has run for beam width 17
C29_Witness ==
    /\ call.beam_width = 17
    /\ disp.MAX_K = 32
    /\ disp.pc = "done"

\* ------------------------------------------------------------------------
\* The ranking batch_topk_kernel extracts (Spec)
\* ------------------------------------------------------------------------
\* C30: the 2K rounds of block-wide arg-max of a kernel run yield 2K pairwise
\* distinct candidate indices, their diversity-adjusted scores non-increasing
\* and the 2K highest of all K*K*2 candidates, equal scores ranked by the
\* lower candidate index.
C30_ExtractionRanksBest2K ==
    (phase = "update" /\ ~last.returned_early) =>
        LET g == global_batch_idx(last.ite, last.vector_id)
            K == cfg.beam_width
            elems == CandidateElems(K, cfg.ledger, cfg.diversity_rates[g], temp_storage.topk_val)
            cta == cta_topk(K, cfg.ledger, cfg.diversity_rates[g], temp_storage.topk_val)
            keys == {cta[n].key : n \in 1 .. 2 * K}
            before(a, b) == elems[a] > elems[b] \/ (elems[a] = elems[b] /\ a < b)
        IN /\ \A m, n \in 1 .. 2 * K : m # n => cta[m].key # cta[n].key
           /\ \A n \in 1 .. 2 * K : cta[n].key \in DOMAIN elems /\ cta[n].value = elems[cta[n].key]
           /\ \A m, n \in 1 .. 2 * K : m < n => before(cta[m].key, cta[n].key)
           /\ \A a \in keys : \A b \in DOMAIN elems \ keys : before(a, b)

====
